---- MODULE Spec2Model ----
(***************************************************************************)
(* Model of the job-posting content-resolution pipeline of                 *)
(* job_cv_extractor: source detection (extractor/source_detector.py), URL  *)
(* canonicalization (extractor/url_resolver.py), the content validator     *)
(* (extractor/content_cleaner.py), the fallback extractor                  *)
(* (extractor/fallback_extractor.py) and the tiered orchestration.         *)
(*                                                                         *)
(* Strings are sequences of lexemes.  A lexeme is a punctuation character  *)
(* (":" "/" "?" "#" "&" "=" "." "[") or a word.  The words are chosen so   *)
(* that every literal of every regular expression of the source begins and *)
(* ends on a lexeme boundary ("job-boards" is "job-" then "boards",        *)
(* "clever" is "c" then "lever"), so a substring test of the source is a   *)
(* contiguous-subsequence test here.  Character classes of the source      *)
(* (\d, [a-f0-9-], [^/], [^&]) are predicates on lexemes.                  *)
(***************************************************************************)
EXTENDS Integers, Sequences, FiniteSets, TLC

VARIABLES url,       \* the URL given to the run
          pc,        \* position of the run
          platform,  \* what the Source Classifier returned
          arg,       \* the platform tag handed to the URL Canonicalizer
          resolved,  \* what the URL Canonicalizer returned
          again,     \* what a second canonicalization of resolved.url returned
          html,      \* the fetched page
          tiers,     \* the extraction tiers attempted so far, in order
          result,    \* the ExtractionResult of the run
          logs,      \* StreamlitLogHandler.logs: the list object it refers to
          heap,      \* the list objects: their entries
          lock,      \* StreamlitLogHandler._lock: the thread that holds it
          threads,   \* the threads that use the logger: position and locals
          emitted    \* the entries appended since the buffer was last cleared

vars == <<url, pc, platform, arg, resolved, again, html, tiers, result,
          logs, heap, lock, threads, emitted>>

\* the variables of a pipeline run, and those of the log buffer
runvars == <<url, pc, platform, arg, resolved, again, html, tiers, result>>

logvars == <<logs, heap, lock, threads, emitted>>

\* the log buffer left out of account
NoLogger ==
    /\ logs = 0
    /\ heap = <<>>
    /\ lock = "free"
    /\ threads = <<>>
    /\ emitted = <<>>

NoPage ==
    [fetched |-> FALSE, blocks |-> <<>>, dom |-> <<>>,
     available |-> FALSE, raises |-> FALSE, extracted |-> <<>>]

NoExtraction == [text |-> <<>>, source |-> "none", meaningful |-> FALSE, platform |-> "none"]

(***************************************************************************)
(* Bounds of the model.                                                    *)
(***************************************************************************)
MaxParams == 2

MaxPipelineParams == 1

\* the most JSON-LD blocks on a page
MaxBlocks == 2

\* the most lines of the text of a page
MaxLines == 4

\* the most lexemes of a text given to the Content Validator, after its
\* prefix
MaxWords == 3

\* the most sections in the body of a page
MaxSections == 2

\* the most calls the threads make on the log handler, all together
MaxCalls == 4

(***************************************************************************)
(* Sequence helpers (str.find, "in", slicing).                             *)
(***************************************************************************)
Range(s) == {s[i] : i \in 1..Len(s)}

From(s, i) == IF i > Len(s) THEN <<>> ELSE SubSeq(s, i, Len(s))

Upto(s, i) == IF i < 1 THEN <<>> ELSE SubSeq(s, 1, i)

MatchAt(s, i, lit) ==
    /\ i >= 1
    /\ i + Len(lit) - 1 <= Len(s)
    /\ \A k \in 1..Len(lit) : s[i + k - 1] = lit[k]

Contains(s, lit) == \E i \in 1..Len(s) : MatchAt(s, i, lit)

Min(S) == CHOOSE x \in S : \A y \in S : x <= y

\* index of the first lexeme of s, at or after position from, that is in
\* set; Len(s) + 1 when there is none
FirstIn(s, set, from) ==
    LET hits == {i \in from..Len(s) : s[i] \in set}
    IN  IF hits = {} THEN Len(s) + 1 ELSE Min(hits)

\* the longest run of lexemes outside set that starts at position from
RunOutside(s, set, from) == SubSeq(s, from, FirstIn(s, set, from) - 1)

(***************************************************************************)
(* Lexeme classes.                                                         *)
(***************************************************************************)
\* words made of decimal digits only: \d+ matches the whole word
DigitWords == {"12345"}

\* words whose first character is in [a-f0-9-]
HexStartWords == {"12345", "abc123", "acme", "apply", "abc", "boards",
                  "embed", "bad", "c", "careers", "com", "co", "a%20b"}

\* wd\d+ : "wd" followed by digits
WdDigitWords == {"wd5"}

\* words that contain the substring "greenhouse" once lower-cased
GreenhouseWords == {"greenhouse"}

\* characters allowed in a URL scheme: words and "."; the first must be a
\* letter
SchemeWords == {"https"}

\* str.lower() on one lexeme
ToLower(w) ==
    CASE w = "GH_JID" -> "gh_jid"
      [] w = "BOARDS" -> "boards"
      [] w = "Skills" -> "skills"
      [] w = "TEAM" -> "team"
      [] w = "Equal" -> "equal"
      [] w = "Privacy" -> "privacy"
      [] w = "Main-Nav" -> "main-nav"
      [] w = "Job-Content" -> "job-content"
      [] w = "Cookie-Banner" -> "cookie-banner"
      [] w = "Role" -> "role"
      [] w = "Benefits:" -> "benefits:"
      [] w = "Intro" -> "intro"
      [] w = "Details" -> "details"
      [] w = "HTTPS" -> "https"
      [] OTHER -> w

Lower(s) == [i \in 1..Len(s) |-> ToLower(s[i])]

\* urllib.parse.unquote with '+' replaced by a space: percent-decoding
Unquote(w) == IF w = "a%20b" THEN "a b" ELSE w

UnquoteSeq(s) == [i \in 1..Len(s) |-> Unquote(s[i])]

(***************************************************************************)
(* urllib.parse.urlparse and urllib.parse.parse_qs, as the source calls    *)
(* them.                                                                   *)
(***************************************************************************)
\* str.split(sep): the pieces of s between the occurrences of sep
RECURSIVE SplitOn(_, _)
SplitOn(s, sep) ==
    LET i == FirstIn(s, {sep}, 1)
    IN  IF i > Len(s) THEN <<s>>
        ELSE <<Upto(s, i - 1)>> \o SplitOn(From(s, i + 1), sep)

\* urlparse(url): scheme, netloc, path, query, fragment; raises is TRUE
\* when urlsplit raises ValueError("Invalid IPv6 URL")
Urlparse(u) ==
    LET colon     == FirstIn(u, {":"}, 1)
        hasScheme == /\ colon > 1
                     /\ colon <= Len(u)
                     /\ u[1] \in SchemeWords
                     /\ \A k \in 1..(colon - 1) : u[k] \in SchemeWords \cup {"."}
        scheme    == IF hasScheme THEN Lower(Upto(u, colon - 1)) ELSE <<>>
        rest      == IF hasScheme THEN From(u, colon + 1) ELSE u
        hasNetloc == MatchAt(rest, 1, <<"/", "/">>)
        netEnd    == FirstIn(rest, {"/", "?", "#"}, 3)
        netloc    == IF hasNetloc THEN SubSeq(rest, 3, netEnd - 1) ELSE <<>>
        rest2     == IF hasNetloc THEN From(rest, netEnd) ELSE rest
        hash      == FirstIn(rest2, {"#"}, 1)
        fragment  == From(rest2, hash + 1)
        rest3     == Upto(rest2, hash - 1)
        qmark     == FirstIn(rest3, {"?"}, 1)
        query     == From(rest3, qmark + 1)
        path      == Upto(rest3, qmark - 1)
    IN  [raises   |-> ("[" \in Range(netloc)) # ("]" \in Range(netloc)),
         scheme   |-> scheme,
         netloc   |-> netloc,
         path     |-> path,
         query    |-> query,
         fragment |-> fragment]

\* one "name=value" piece of a query string: parse_qsl keeps it only when
\* it has an "=" and a non-blank value (keep_blank_values is False)
PairKept(nv) ==
    LET eq == FirstIn(nv, {"="}, 1)
    IN  eq <= Len(nv) /\ Len(From(nv, eq + 1)) > 0

PairOf(nv) ==
    LET eq == FirstIn(nv, {"="}, 1)
    IN  [name  |-> UnquoteSeq(Upto(nv, eq - 1)),
         value |-> UnquoteSeq(From(nv, eq + 1))]

\* parse_qsl(query): the (name, value) pairs in order
ParseQsl(q) ==
    LET pieces == SplitOn(q, "&")
        kept   == SelectSeq(pieces, PairKept)
    IN  [i \in 1..Len(kept) |-> PairOf(kept[i])]

\* 'key' in parse_qs(query)
HasParam(params, key) == \E i \in 1..Len(params) : params[i].name = <<key>>

\* parse_qs(query)[key][0]
FirstParam(params, key) ==
    params[Min({i \in 1..Len(params) : params[i].name = <<key>>})].value

(***************************************************************************)
(* extractor/source_detector.py                                            *)
(***************************************************************************)
\* words whose first character is a decimal digit, with the digits \d+
\* matches there
DigitStartWords == DigitWords

\* re.search of each pattern of GREENHOUSE_PATTERNS in the lower-cased URL
GREENHOUSE_PATTERNS(l) ==
    <<Contains(l, <<"boards", ".", "greenhouse", ".", "io">>),
      Contains(l, <<"greenhouse", ".", "io", "/", "embed">>),
      \E i \in 1..Len(l) :
          /\ l[i] \in {"?", "&"}
          /\ MatchAt(l, i + 1, <<"gh_jid", "=">>)
          /\ i + 3 <= Len(l)
          /\ l[i + 3] \in DigitStartWords,
      Contains(l, <<"job_app", ".", "greenhouse", ".", "io">>)>>

LEVER_PATTERNS(l) ==
    <<Contains(l, <<"jobs", ".", "lever", ".", "co">>),
      \E i \in 1..Len(l) :
          /\ MatchAt(l, i, <<"lever", ".", "co", "/">>)
          /\ LET company == RunOutside(l, {"/"}, i + 4)
                 next    == i + 4 + Len(company)
             IN  /\ Len(company) > 0
                 /\ next + 1 <= Len(l)
                 /\ l[next] = "/"
                 /\ l[next + 1] \in HexStartWords>>

WORKDAY_PATTERNS(l) ==
    <<Contains(l, <<"myworkdayjobs", ".", "com">>),
      \E i \in 1..Len(l) :
          /\ MatchAt(l, i, <<".", "workday", ".", "com", "/">>)
          /\ \E j \in (i + 5)..Len(l) : MatchAt(l, j, <<"/", "job", "/">>),
      \E i \in 1..Len(l) :
          /\ l[i] \in WdDigitWords
          /\ MatchAt(l, i + 1, <<".", "myworkdaysite", ".", "com">>)>>

\* the loop "for pattern in PATTERNS: if re.search(pattern, url_lower)"
AnyPattern(matches) == \E k \in 1..Len(matches) : matches[k]

\* detect_greenhouse(url): "True", "False", or "ValueError" when urlparse
\* raises (it is reached only when no pattern matched)
detect_greenhouse(u) ==
    IF AnyPattern(GREENHOUSE_PATTERNS(Lower(u))) THEN "True"
    ELSE LET parsed == Urlparse(u)
         IN  IF parsed.raises THEN "ValueError"
             ELSE IF HasParam(ParseQsl(parsed.query), "gh_jid") THEN "True"
             ELSE "False"

detect_lever(u) == AnyPattern(LEVER_PATTERNS(Lower(u)))

detect_workday(u) == AnyPattern(WORKDAY_PATTERNS(Lower(u)))

\* detect_source(url): the platform tag, or "ValueError" when the call
\* raises
detect_source(u) ==
    LET gh == detect_greenhouse(u)
    IN  IF gh = "ValueError" THEN "ValueError"
        ELSE IF gh = "True" THEN "greenhouse"
        ELSE IF detect_lever(u) THEN "lever"
        ELSE IF detect_workday(u) THEN "workday"
        ELSE "generic"

(***************************************************************************)
(* extractor/url_resolver.py                                               *)
(***************************************************************************)
Returned(u, flag) == [status |-> "ok", url |-> u, rewritten |-> flag]

Raised == [status |-> "ValueError", url |-> <<>>, rewritten |-> FALSE]

BoardsPrefix == <<"https", ":", "/", "/", "boards", ".", "greenhouse", ".", "io", "/">>

\* re.search(pattern, s).group(1) for a pattern made of the literal lit
\* followed by the group ([^stop]+); <<>> when there is no match
GroupAfter(s, lit, stop) ==
    LET hits == {i \in 1..Len(s) :
                    /\ MatchAt(s, i, lit)
                    /\ Len(RunOutside(s, stop, i + Len(lit))) > 0}
    IN  IF hits = {} THEN <<>>
        ELSE RunOutside(s, stop, Min(hits) + Len(lit))

\* _extract_greenhouse_company(url, query_params): the company token, <<>>
\* for None
extract_greenhouse_company(u, params) ==
    IF HasParam(params, "for") THEN FirstParam(params, "for")
    ELSE LET board == GroupAfter(u, <<"boards", ".", "greenhouse", ".", "io", "/">>, {"/"})
             embed == GroupAfter(u, <<"greenhouse", ".", "io", "/", "embed", "/",
                                      "job_board", "/", "js", "?", "for", "=">>, {"&"})
         IN  IF board # <<>> THEN board ELSE embed

\* re.search(r'/jobs?/(\d+)', url).group(1); <<>> when there is no match
PathJobId(u) ==
    LET hits == {i \in 1..Len(u) :
                    /\ u[i] = "/"
                    /\ i + 3 <= Len(u)
                    /\ u[i + 1] \in {"jobs", "job"}
                    /\ u[i + 2] = "/"
                    /\ u[i + 3] \in DigitStartWords}
    IN  IF hits = {} THEN <<>> ELSE <<u[Min(hits) + 3]>>

\* the host test with the .lower() forgotten
IsCanonicalNetloc_CaseSensitive(netloc) ==
    Contains(netloc, <<"boards", ".", "greenhouse", ".", "io">>)

\* 'boards.greenhouse.io' in parsed.netloc.lower()
IsCanonicalNetloc(netloc) ==
    Contains(Lower(netloc), <<"boards", ".", "greenhouse", ".", "io">>)

resolve_greenhouse_url(u) ==
    LET parsed == Urlparse(u)
        params == ParseQsl(parsed.query)
        token  == extract_greenhouse_company(u, params)
        pathId == PathJobId(u)
    IN  IF parsed.raises THEN Raised
        ELSE IF IsCanonicalNetloc(parsed.netloc)
             THEN Returned(u, FALSE)
        ELSE IF HasParam(params, "gh_jid")
             THEN IF token # <<>>
                  THEN Returned(BoardsPrefix \o token \o <<"/", "jobs", "/">>
                                    \o FirstParam(params, "gh_jid"), TRUE)
                  ELSE Returned(BoardsPrefix \o <<"embed", "/", "job_app", "?", "token", "=">>
                                    \o FirstParam(params, "gh_jid"), TRUE)
        ELSE IF HasParam(params, "token")
                   /\ \E i \in 1..Len(u) : ToLower(u[i]) \in GreenhouseWords
             THEN Returned(BoardsPrefix \o <<"embed", "/", "job_app", "?", "token", "=">>
                               \o FirstParam(params, "token"), TRUE)
        ELSE IF pathId # <<>> /\ token # <<>>
             THEN Returned(BoardsPrefix \o token \o <<"/", "jobs", "/">> \o pathId, TRUE)
        ELSE Returned(u, FALSE)

\* re.sub(r'/apply/?$', '', path)
StripApply(path) ==
    LET n == Len(path)
    IN  IF MatchAt(path, n - 2, <<"/", "apply", "/">>) THEN Upto(path, n - 3)
        ELSE IF MatchAt(path, n - 1, <<"/", "apply">>) THEN Upto(path, n - 2)
        ELSE path

\* the comparison of the cleaned path with the parsed path left out
PathWasCleaned_Always(clean_path, path) == TRUE

\* clean_path != parsed.path
PathWasCleaned(clean_path, path) == clean_path # path

resolve_lever_url(u) ==
    LET parsed     == Urlparse(u)
        clean_path == StripApply(parsed.path)
    IN  IF parsed.raises THEN Raised
        ELSE IF ~Contains(Lower(parsed.netloc), <<"lever", ".", "co">>)
             THEN Returned(u, FALSE)
        ELSE IF PathWasCleaned(clean_path, parsed.path)
             THEN Returned(parsed.scheme \o <<":", "/", "/">> \o parsed.netloc \o clean_path,
                           TRUE)
        ELSE Returned(u, FALSE)

resolve_workday_url(u) == Returned(u, FALSE)

resolve_url(u, src) ==
    IF src = "greenhouse" THEN resolve_greenhouse_url(u)
    ELSE IF src = "lever" THEN resolve_lever_url(u)
    ELSE IF src = "workday" THEN resolve_workday_url(u)
    ELSE Returned(u, FALSE)

(***************************************************************************)
(* The URLs of the model: scheme, network location, path and up to         *)
(* MaxParams distinct query parameters.                                    *)
(***************************************************************************)
Scheme == <<"https", ":", "/", "/">>

CanonicalHost == <<"boards", ".", "greenhouse", ".", "io">>

Netlocs ==
    {<<"careers", ".", "acme", ".", "com">>,
     CanonicalHost,
     <<"BOARDS", ".", "greenhouse", ".", "io">>,
     <<"job-", "boards", ".", "greenhouse", ".", "io">>,
     <<"app", ".", "greenhouse", ".", "io">>,
     <<"jobs", ".", "lever", ".", "co">>,
     <<"c", "lever", ".", "co">>,
     <<"acme", ".", "wd5", ".", "myworkdayjobs", ".", "com">>,
     <<"[", "bad", ".", "careers", ".", "acme", ".", "com">>,
     <<"[", "acme", ".", "jobs", ".", "lever", ".", "co">>}

Paths ==
    {<<>>,
     <<"/", "jobs", "/", "12345">>,
     <<"/", "acme", "/", "abc123">>,
     <<"/", "acme", "/", "abc123", "/", "apply">>,
     <<"/", "acme", "/", "abc123", "/", "apply", "/">>,
     <<"/", "acme", "/", "abc123", "/", "apply", "/", "apply">>,
     <<"/", "embed", "/", "job_board", "/", "js">>,
     <<"/", "myworkdayjobs", ".", "com", "/", "abc123">>}

ParamOptions ==
    {<<"gh_jid", "=", "12345">>,
     <<"gh_jid", "=", "abc">>,
     <<"gh_jid", "=", "a%20b">>,
     <<"gh_jid", "=">>,
     <<"GH_JID", "=", "12345">>,
     <<"GH_JID", "=", "abc">>,
     <<"for", "=", "acme">>,
     <<"token", "=", "abc">>,
     <<"u", "=", "boards", ".", "greenhouse", ".", "io", "/", "acme">>}

\* "&".join(params)
RECURSIVE JoinParams(_)
JoinParams(ps) ==
    IF Len(ps) = 0 THEN <<>>
    ELSE IF Len(ps) = 1 THEN ps[1]
    ELSE ps[1] \o <<"&">> \o JoinParams(Tail(ps))

ParamLists(max) ==
    UNION {{ps \in [1..n -> ParamOptions] :
               \A i, j \in 1..n : i # j => ps[i] # ps[j]} : n \in 0..max}

Queries(max) ==
    {IF Len(ps) = 0 THEN <<>> ELSE <<"?">> \o JoinParams(ps) : ps \in ParamLists(max)}

URLsWith(max) == {Scheme \o n \o p \o q : n \in Netlocs, p \in Paths, q \in Queries(max)}

\* the URLs the classifier and the canonicalizer are called on
URLs == URLsWith(MaxParams)

\* the URLs whole pipeline runs are started on
PipelineURLs == URLsWith(MaxPipelineParams)

PlatformTags == {"greenhouse", "lever", "workday", "generic"}

NoResult == [status |-> "none", url |-> <<>>, rewritten |-> FALSE]

(***************************************************************************)
(* SpecUrl: the classifier and the canonicalizer called on every URL of    *)
(* the model, the canonicalizer with every platform tag.  platform holds   *)
(* what detect_source returned, resolved what the resolver returned, again *)
(* what resolve_lever_url returned for the URL in resolved.                *)
(***************************************************************************)
InitUrl ==
    /\ NoLogger
    /\ url \in URLs
    /\ pc = "idle"
    /\ platform = "none"
    /\ arg = "none"
    /\ resolved = NoResult
    /\ again = NoResult
    /\ html = NoPage
    /\ tiers = <<>>
    /\ result = NoExtraction

\* detect_source(url)
Detect ==
    /\ pc = "idle"
    /\ platform' = detect_source(url)
    /\ pc' = "detected"
    /\ UNCHANGED <<url, arg, resolved, again, html, tiers, result>>
    /\ UNCHANGED logvars

\* resolve_url(url, t) for a platform tag t
Resolve ==
    /\ pc = "idle"
    /\ \E t \in PlatformTags :
          /\ arg' = t
          /\ resolved' = resolve_url(url, t)
    /\ pc' = "resolved"
    /\ UNCHANGED <<url, platform, again, html, tiers, result>>
    /\ UNCHANGED logvars

\* resolve_lever_url(url)
ResolveLever ==
    /\ pc = "idle"
    /\ arg' = "lever_direct"
    /\ resolved' = resolve_lever_url(url)
    /\ pc' = "lever_once"
    /\ UNCHANGED <<url, platform, again, html, tiers, result>>
    /\ UNCHANGED logvars

\* resolve_lever_url applied to the URL the first call returned
ResolveLeverAgain ==
    /\ pc = "lever_once"
    /\ resolved.status = "ok"
    /\ again' = resolve_lever_url(resolved.url)
    /\ pc' = "lever_twice"
    /\ UNCHANGED <<url, platform, arg, resolved, html, tiers, result>>
    /\ UNCHANGED logvars

NextUrl == Detect \/ Resolve \/ ResolveLever \/ ResolveLeverAgain

SpecUrl == InitUrl /\ [][NextUrl]_vars

(***************************************************************************)
(* Texts are sequences of lexemes: words, and the newline "\n".  Two       *)
(* neighbouring lexemes of a line are separated by one space, so the empty *)
(* word "" stands for whitespace: <<"", "a">> is " a", <<"a", "", "b">> is *)
(* "a  b", <<"", "">> is " ".  There is no space next to a newline.  "pad" *)
(* stands for a 100-character passage and "filler" for a 60-character      *)
(* passage, both without job keyword, legal phrase, colon or punctuation.  *)
(***************************************************************************)
\* len(word)
CharLen(w) ==
    CASE w = "" -> 0
      [] w = "pad" -> 100
      [] w = "filler" -> 60
      [] w \in {"opportunity", "description"} -> 11
      [] w \in {"Benefits:"} -> 9
      [] w \in {"employer", "reserved", "teamwork"} -> 8
      [] w \in {"visible", "Privacy", "privacy", "Details"} -> 7
      [] w \in {"skills", "Skills", "secret", "policy", "rights", "hidden"} -> 6
      [] w \in {"Equal", "equal", "Intro"} -> 5
      [] w \in {"team", "TEAM", "role", "Role", "kept"} -> 4
      [] w \in {"all", "abc", "job"} -> 3
      [] w \in {"ab", "--"} -> 2
      [] OTHER -> 1

RECURSIVE SumLen(_)
SumLen(t) == IF Len(t) = 0 THEN 0 ELSE CharLen(Head(t)) + SumLen(Tail(t))

\* the spaces of a text: one between two neighbouring lexemes of a line
Spaces(t) == Cardinality({i \in 1..(Len(t) - 1) : t[i] # "\n" /\ t[i + 1] # "\n"})

\* len(text)
TextLen(t) == SumLen(t) + Spaces(t)

(***************************************************************************)
(* extractor/content_cleaner.py: the Content Validator                     *)
(***************************************************************************)
DEFAULT_MIN_LENGTH == 200

job_keywords ==
    <<<<"responsibilities">>, <<"qualifications">>, <<"requirements">>,
      <<"experience">>, <<"skills">>, <<"benefits">>, <<"salary">>, <<"location">>,
      <<"apply">>, <<"position">>, <<"role">>, <<"team">>, <<"opportunity">>,
      <<"job", "description">>, <<"about", "the", "role">>, <<"what", "you'll", "do">>,
      <<"what", "we're", "looking", "for">>, <<"who", "you", "are">>, <<"about", "you">>>>

\* kw in word, for a keyword of one word: the word is the keyword or holds it
\* inside ("teamwork" holds "team", "benefits:" holds "benefits")
Infix(w, kw) ==
    \/ w = kw
    \/ <<w, kw>> \in {<<"teamwork", "team">>, <<"benefits:", "benefits">>}

\* kw in text_lower: a keyword of several words occurs where its words follow
\* each other with one space between them (no word of the model ends with
\* the first or starts with the last word of such a keyword without being it)
KeywordIn(text_lower, kw) ==
    IF Len(kw) = 1 THEN \E i \in 1..Len(text_lower) : Infix(text_lower[i], kw[1])
    ELSE Contains(text_lower, kw)

is_meaningful_content_CaseSensitive(t, min_length) ==
    LET matches == Cardinality({k \in 1..Len(job_keywords) : KeywordIn(t, job_keywords[k])})
    IN  IF TextLen(t) < min_length THEN FALSE
        ELSE IF matches < 2 THEN FALSE
        ELSE TRUE

is_meaningful_content(t, min_length) ==
    LET text_lower == Lower(t)
        matches    == Cardinality({k \in 1..Len(job_keywords) :
                                      KeywordIn(text_lower, job_keywords[k])})
    IN  IF TextLen(t) < min_length THEN FALSE
        ELSE IF matches < 2 THEN FALSE
        ELSE TRUE

(***************************************************************************)
(* extractor/fallback_extractor.py                                         *)
(***************************************************************************)
extract_with_fallback_Uncaught(page) ==
    IF ~page.available THEN [raises |-> FALSE, text |-> <<>>]
    ELSE IF page.raises THEN [raises |-> TRUE, text |-> <<>>]
    ELSE IF TextLen(page.extracted) > 0 THEN [raises |-> FALSE, text |-> page.extracted]
    ELSE [raises |-> FALSE, text |-> <<>>]

\* extract_with_fallback(html, url): page.available is TRAFILATURA_AVAILABLE,
\* page.raises whether trafilatura.extract raises on the page, page.extracted
\* the text it returns otherwise (a text of no character for None and for
\* the empty string).  raises is TRUE when the call raises instead of
\* returning.
extract_with_fallback(page) ==
    IF ~page.available THEN [raises |-> FALSE, text |-> <<>>]
    ELSE IF page.raises THEN [raises |-> FALSE, text |-> <<>>]
    ELSE IF TextLen(page.extracted) > 0 THEN [raises |-> FALSE, text |-> page.extracted]
    ELSE [raises |-> FALSE, text |-> <<>>]

(***************************************************************************)
(* The pages of the model.  A page is described by what each extraction    *)
(* tier finds in it: the structured record, the stripped text, and what    *)
(* the readability library does.                                           *)
(***************************************************************************)
MeaningfulText == <<"pad", "pad", "skills", "team">>

LongText == <<"pad", "pad", "pad", "Skills", "skills">>

ShortText == <<"skills", "team">>

\* what the Boilerplate Stripper yields
CleanedTexts == {ShortText, LongText, MeaningfulText}

\* what the readability library returns when it returns
ExtractedTexts == {<<>>, LongText, MeaningfulText}

(***************************************************************************)
(* extractor/html_parser.py: the Structured-Data Extractor.                *)
(*                                                                         *)
(* page.blocks is what soup.find_all('script', type='application/ld+json') *)
(* yields, in document order.  A block is described by what json.loads     *)
(* makes of its content: kind "empty" (script.string is empty), "malformed"*)
(* (json.loads raises JSONDecodeError), "scalar" (a JSON number or string),*)
(* "list" (items holds the array) or "dict" (self holds the object, graph  *)
(* says whether it has an "@graph" key and items holds that array).        *)
(* An item is one JSON value: dict says whether it is an object, tkind     *)
(* whether its "@type" is a string ("str"), a list of strings ("list") or  *)
(* something else ("other"), types the type strings, and the other fields  *)
(* the values of the keys of the same names (<<>> for a missing key or an  *)
(* empty string).  baseSalary is "absent", "string" (a bare string),       *)
(* "number" ({"value": {"minValue": 50000}}) or "text"                     *)
(* ({"value": {"minValue": "50000"}}).                                     *)
(***************************************************************************)
\* str.strip() on a text: the empty word "" at either end is the whitespace
\* there, and a newline is whitespace
RECURSIVE StripLeft(_)
StripLeft(t) == IF Len(t) > 0 /\ Head(t) \in {"", "\n"} THEN StripLeft(Tail(t)) ELSE t

RECURSIVE StripRight(_)
StripRight(t) ==
    IF Len(t) > 0 /\ t[Len(t)] \in {"", "\n"} THEN StripRight(SubSeq(t, 1, Len(t) - 1))
    ELSE t

Strip(t) == StripRight(StripLeft(t))

\* 'JobPosting' in schema_type, for a string
TypeIsJobPosting(name) == Contains(name, <<"JobPosting">>)

\* _is_job_posting(data)
is_job_posting(item) ==
    IF ~item.dict THEN FALSE
    ELSE IF item.tkind = "str" THEN TypeIsJobPosting(item.types[1])
    ELSE IF item.tkind = "list"
         THEN \E k \in 1..Len(item.types) : TypeIsJobPosting(item.types[k])
    ELSE FALSE

\* _extract_value(data, ['title', 'name']): the first key with a truthy
\* value decides, and its value is stripped
ExtractTitle(item) ==
    IF Len(item.title) > 0 THEN Strip(item.title)
    ELSE IF Len(item.name) > 0 THEN Strip(item.name)
    ELSE <<>>

\* _extract_value(data, ['description'])
ExtractDescription(item) ==
    IF Len(item.description) > 0 THEN Strip(item.description) ELSE <<>>

\* _extract_company(data) for a hiringOrganization that is a bare string
extract_company(item) == item.hiringOrganization

\* _extract_location(data) for a jobLocation that is a bare string
extract_location(item) == item.jobLocation

\* _extract_salary(data): raises is TRUE when the format specification
\* "{min_val:,}" is applied to a string
extract_salary(item) ==
    CASE item.baseSalary = "string" -> [raises |-> FALSE, value |-> <<"USD", "50000">>]
      [] item.baseSalary = "number" ->
            [raises |-> FALSE, value |-> <<"USD", "50,000+", "per", "YEAR">>]
      [] item.baseSalary = "text" -> [raises |-> TRUE, value |-> <<>>]
      [] OTHER -> [raises |-> FALSE, value |-> <<>>]

\* what extract_schema_job_posting returns for "no JobPosting" (None)
NotFound ==
    [found |-> FALSE, title |-> <<>>, description |-> <<>>, company |-> <<>>,
     location |-> <<>>, salary |-> <<>>]

\* _normalize_job_posting(data): the fields of the returned dict; a key the
\* final filter {k: v ... if v} drops has the value <<>>.  raises is TRUE
\* when the call raises instead of returning.
normalize_job_posting(item) ==
    [raises      |-> extract_salary(item).raises,
     found       |-> TRUE,
     title       |-> ExtractTitle(item),
     description |-> ExtractDescription(item),
     company     |-> extract_company(item),
     location    |-> extract_location(item),
     salary      |-> extract_salary(item).value]

\* the record without the raises flag
Record(n) ==
    [found |-> n.found, title |-> n.title, description |-> n.description,
     company |-> n.company, location |-> n.location, salary |-> n.salary]

\* "for item in data: if _is_job_posting(item): return
\* _normalize_job_posting(item)": "none" when the loop ends without a
\* JobPosting, "raised" when the normalization raises
RECURSIVE ScanItems(_)
ScanItems(items) ==
    IF Len(items) = 0 THEN [outcome |-> "none", record |-> NotFound]
    ELSE IF is_job_posting(Head(items))
         THEN IF normalize_job_posting(Head(items)).raises
              THEN [outcome |-> "raised", record |-> NotFound]
              ELSE [outcome |-> "return",
                    record |-> Record(normalize_job_posting(Head(items)))]
    ELSE ScanItems(Tail(items))

\* the body of the try statement for one script tag
ScanBlock(block) ==
    CASE block.kind = "empty" -> [outcome |-> "none", record |-> NotFound]
      [] block.kind = "malformed" -> [outcome |-> "raised", record |-> NotFound]
      [] block.kind = "list" -> ScanItems(block.items)
      [] block.kind = "dict" ->
            IF is_job_posting(block.self) THEN ScanItems(<<block.self>>)
            ELSE IF block.graph THEN ScanItems(block.items)
            ELSE [outcome |-> "none", record |-> NotFound]
      [] OTHER -> [outcome |-> "none", record |-> NotFound]

\* "for script in script_tags": a block that raised is left by the except
\* clauses and the loop continues with the next one
RECURSIVE ScanBlocks(_)
ScanBlocks(blocks) ==
    IF Len(blocks) = 0 THEN NotFound
    ELSE IF ScanBlock(Head(blocks)).outcome = "return" THEN ScanBlock(Head(blocks)).record
    ELSE ScanBlocks(Tail(blocks))

\* extract_schema_job_posting(html)
extract_schema_job_posting(page) == ScanBlocks(page.blocks)

(***************************************************************************)
(* extractor/content_cleaner.py: the Boilerplate Stripper.                 *)
(*                                                                         *)
(* page.dom is the tree BeautifulSoup(html, 'html.parser') builds: the     *)
(* sequence of the top-level nodes.  A node has a tag ("#text" for a       *)
(* string, "#comment" for a comment), the class names, the id and the role *)
(* of an element, the text of a string or comment, and the child nodes.    *)
(***************************************************************************)
REMOVE_TAGS ==
    {"script", "style", "noscript", "iframe", "svg", "canvas",
     "nav", "header", "footer", "aside", "form", "button",
     "input", "select", "textarea", "label",
     "advertisement", "ads", "ad"}

\* the attribute words (class names, ids, roles), lower-cased, in which a
\* pattern of BOILERPLATE_PATTERNS matches: "nav", "header", "ad", "cookie",
\* "banner", "sidebar", "legal" occur in them
BoilerplateWords ==
    {"main-nav", "navigation", "job-header", "lead", "cookie-banner", "banner",
     "sidebar", "legal"}

\* the class names in which re.compile(r'job|content|description', re.I)
\* matches
ContentClassWords == {"job-content", "job-header", "description", "content"}

\* the removal with find_all(tag, recursive=False): only the top-level
\* nodes are looked at
RemoveTags_ChildrenOnly(nodes) ==
    SelectSeq(nodes, LAMBDA n : n.tag \notin REMOVE_TAGS)

\* "for tag in REMOVE_TAGS: for element in soup.find_all(tag):
\* element.decompose()"
RECURSIVE RemoveTags(_)
RemoveTags(nodes) ==
    IF Len(nodes) = 0 THEN <<>>
    ELSE IF Head(nodes).tag \in REMOVE_TAGS THEN RemoveTags(Tail(nodes))
    ELSE <<[Head(nodes) EXCEPT !.kids = RemoveTags(Head(nodes).kids)]>>
         \o RemoveTags(Tail(nodes))

\* BOILERPLATE_REGEX.search(f"{class_str} {elem_id} {role}")
BOILERPLATE_REGEX(node) ==
    \E w \in Range(Lower(node.class)) \cup {ToLower(node.id), ToLower(node.role)} :
        w \in BoilerplateWords

\* _remove_boilerplate_elements(soup)
RECURSIVE remove_boilerplate_elements(_)
remove_boilerplate_elements(nodes) ==
    IF Len(nodes) = 0 THEN <<>>
    ELSE IF Head(nodes).tag \notin {"#text", "#comment"} /\ BOILERPLATE_REGEX(Head(nodes))
         THEN remove_boilerplate_elements(Tail(nodes))
    ELSE <<[Head(nodes) EXCEPT !.kids = remove_boilerplate_elements(Head(nodes).kids)]>>
         \o remove_boilerplate_elements(Tail(nodes))

\* "for comment in soup.find_all(string=...Comment): comment.extract()"
RECURSIVE RemoveComments(_)
RemoveComments(nodes) ==
    IF Len(nodes) = 0 THEN <<>>
    ELSE IF Head(nodes).tag = "#comment" THEN RemoveComments(Tail(nodes))
    ELSE <<[Head(nodes) EXCEPT !.kids = RemoveComments(Head(nodes).kids)]>>
         \o RemoveComments(Tail(nodes))

\* the nodes of a tree in document order (Tag.descendants)
RECURSIVE Descendants(_)
Descendants(nodes) ==
    IF Len(nodes) = 0 THEN <<>>
    ELSE <<Head(nodes)>> \o Descendants(Head(nodes).kids) \o Descendants(Tail(nodes))

\* "\n".join of the pieces
RECURSIVE JoinLines(_)
JoinLines(pieces) ==
    IF Len(pieces) = 0 THEN <<>>
    ELSE IF Len(pieces) = 1 THEN Head(pieces)
    ELSE Head(pieces) \o <<"\n">> \o JoinLines(Tail(pieces))

\* the strings get_text collects: every string of the tree, stripped, the
\* empty ones left out
RECURSIVE StrippedStrings(_)
StrippedStrings(all) ==
    IF Len(all) = 0 THEN <<>>
    ELSE IF Head(all).tag = "#text" /\ Len(Strip(Head(all).text)) > 0
         THEN <<Strip(Head(all).text)>> \o StrippedStrings(Tail(all))
    ELSE StrippedStrings(Tail(all))

\* element.get_text(separator='\n', strip=True)
get_text(nodes) == JoinLines(StrippedStrings(Descendants(nodes)))

\* the <article> element looked for before the <main> element
ContentRoot_ArticleFirst(soup) ==
    LET all       == Descendants(soup)
        elements  == {k \in 1..Len(all) : all[k].tag \notin {"#text", "#comment"}}
        mains     == {k \in elements : all[k].tag = "main"}
        articles  == {k \in elements : all[k].tag = "article"}
        mainRoles == {k \in elements : all[k].role = "main"}
        byClass   == {k \in elements :
                         \E c \in Range(Lower(all[k].class)) : c \in ContentClassWords}
        bodies    == {k \in elements : all[k].tag = "body"}
    IN  IF articles # {} THEN <<all[Min(articles)]>>
        ELSE IF mains # {} THEN <<all[Min(mains)]>>
        ELSE IF mainRoles # {} THEN <<all[Min(mainRoles)]>>
        ELSE IF byClass # {} THEN <<all[Min(byClass)]>>
        ELSE IF bodies # {} THEN <<all[Min(bodies)]>>
        ELSE soup

\* the content root: soup.find('main') or soup.find('article') or
\* soup.find(attrs={'role': 'main'}) or soup.find(class_=...) or
\* soup.find('body') or soup
ContentRoot(soup) ==
    LET all       == Descendants(soup)
        elements  == {k \in 1..Len(all) : all[k].tag \notin {"#text", "#comment"}}
        mains     == {k \in elements : all[k].tag = "main"}
        articles  == {k \in elements : all[k].tag = "article"}
        mainRoles == {k \in elements : all[k].role = "main"}
        byClass   == {k \in elements :
                         \E c \in Range(Lower(all[k].class)) : c \in ContentClassWords}
        bodies    == {k \in elements : all[k].tag = "body"}
    IN  IF mains # {} THEN <<all[Min(mains)]>>
        ELSE IF articles # {} THEN <<all[Min(articles)]>>
        ELSE IF mainRoles # {} THEN <<all[Min(mainRoles)]>>
        ELSE IF byClass # {} THEN <<all[Min(byClass)]>>
        ELSE IF bodies # {} THEN <<all[Min(bodies)]>>
        ELSE soup

\* _extract_clean_text(soup)
extract_clean_text(soup) == get_text(ContentRoot(soup))

\* a word of a line, as opposed to the whitespace ""
IsWord(w) == w # ""

\* words in which "use" or "service" starts, "e\.?o\.?e\.?" matches,
\* "\d{4}" starts, and the copyright pattern (U+00A9, "\s*\d{4}") matches;
\* the lexeme "&copy;" is the character U+00A9
UseWords == {"use", "service"}

EoeWords == {"eoe", "e.o.e."}

YearWords == {"2024"}

CopyrightYearWords == {"&copy;2024"}

\* re.search of each pattern of LEGAL_TEXT_PATTERNS in a line; l is the
\* line lower-cased (re.IGNORECASE), its words only: "\s+" of a pattern
\* matches whatever whitespace separates two words
LEGAL_TEXT_PATTERNS(l) ==
    <<Contains(l, <<"equal", "opportunity", "employer">>),
      \E i \in 1..Len(l) :
          /\ MatchAt(l, i, <<"we", "are">>)
          /\ i + 3 <= Len(l)
          /\ l[i + 2] \in {"a", "an"}
          /\ l[i + 3] \in EoeWords,
      Contains(l, <<"affirmative", "action">>),
      \/ \E i \in 1..Len(l) :
            /\ l[i] = "terms"
            /\ \/ i + 1 <= Len(l) /\ l[i + 1] \in UseWords
               \/ i + 2 <= Len(l) /\ l[i + 1] = "of" /\ l[i + 2] \in UseWords
      \/ Contains(l, <<"privacy", "policy">>),
      \E i \in 1..Len(l) :
          \/ l[i] \in CopyrightYearWords
          \/ l[i] = "&copy;" /\ i + 1 <= Len(l) /\ l[i + 1] \in YearWords,
      Contains(l, <<"all", "rights", "reserved">>),
      \E i \in 1..Len(l) :
          /\ l[i] = "cookie"
          /\ i + 1 <= Len(l)
          /\ l[i + 1] \in {"policy", "settings", "preferences"},
      \E i \in 1..Len(l) :
          /\ l[i] = "by"
          /\ i + 1 <= Len(l)
          /\ l[i + 1] \in {"clicking", "applying", "submitting"},
      Contains(l, <<"we", "use", "cookies">>),
      Contains(l, <<"this", "site", "uses", "cookies">>)>>

\* LEGAL_REGEX.search(line)
LEGAL_REGEX(line) == AnyPattern(LEGAL_TEXT_PATTERNS(SelectSeq(Lower(line), IsWord)))

\* words that end with a colon
ColonWords == {"Benefits:", ":"}

\* line.endswith(':')
EndsWithColon(line) == Len(line) > 0 /\ line[Len(line)] \in ColonWords

\* the loop of _remove_legal_sections over the lines that are left, with
\* the cleaned_lines and the skip_until_section flag reached so far, the
\* test for a legal pattern made only while no section is being skipped
RECURSIVE LegalLoop_MatchOnlyWhenKeeping(_, _, _)
LegalLoop_MatchOnlyWhenKeeping(lines, cleaned_lines, skip_until_section) ==
    IF Len(lines) = 0 THEN cleaned_lines
    ELSE LET line_stripped == Strip(Head(lines))
             rest          == Tail(lines)
         IN  IF Len(line_stripped) = 0
             THEN IF Len(cleaned_lines) > 0 /\ cleaned_lines[Len(cleaned_lines)] # <<>>
                  THEN LegalLoop_MatchOnlyWhenKeeping(rest, Append(cleaned_lines, <<>>),
                                                      skip_until_section)
                  ELSE LegalLoop_MatchOnlyWhenKeeping(rest, cleaned_lines, skip_until_section)
             ELSE IF ~skip_until_section /\ LEGAL_REGEX(line_stripped)
             THEN LegalLoop_MatchOnlyWhenKeeping(rest, cleaned_lines,
                                                 TextLen(line_stripped) < 100)
             ELSE LET skip == skip_until_section
                              /\ ~(TextLen(line_stripped) < 60 /\ EndsWithColon(line_stripped))
                  IN  LegalLoop_MatchOnlyWhenKeeping(
                          rest,
                          IF skip THEN cleaned_lines ELSE Append(cleaned_lines, line_stripped),
                          skip)

\* the loop of _remove_legal_sections over the lines that are left, with
\* the cleaned_lines and the skip_until_section flag reached so far, the
\* flag assigned "len(line_stripped) < 100" at every match
RECURSIVE LegalLoop_LongMatchResets(_, _, _)
LegalLoop_LongMatchResets(lines, cleaned_lines, skip_until_section) ==
    IF Len(lines) = 0 THEN cleaned_lines
    ELSE LET line_stripped == Strip(Head(lines))
             rest          == Tail(lines)
         IN  IF Len(line_stripped) = 0
             THEN IF Len(cleaned_lines) > 0 /\ cleaned_lines[Len(cleaned_lines)] # <<>>
                  THEN LegalLoop_LongMatchResets(rest, Append(cleaned_lines, <<>>),
                                                 skip_until_section)
                  ELSE LegalLoop_LongMatchResets(rest, cleaned_lines, skip_until_section)
             ELSE IF LEGAL_REGEX(line_stripped)
             THEN LegalLoop_LongMatchResets(rest, cleaned_lines, TextLen(line_stripped) < 100)
             ELSE LET skip == skip_until_section
                              /\ ~(TextLen(line_stripped) < 60 /\ EndsWithColon(line_stripped))
                  IN  LegalLoop_LongMatchResets(
                          rest,
                          IF skip THEN cleaned_lines ELSE Append(cleaned_lines, line_stripped),
                          skip)

\* the loop of _remove_legal_sections over the lines that are left, with
\* the cleaned_lines and the skip_until_section flag reached so far
RECURSIVE LegalLoop(_, _, _)
LegalLoop(lines, cleaned_lines, skip_until_section) ==
    IF Len(lines) = 0 THEN cleaned_lines
    ELSE LET line_stripped == Strip(Head(lines))
             rest          == Tail(lines)
         IN  IF Len(line_stripped) = 0
             THEN IF Len(cleaned_lines) > 0 /\ cleaned_lines[Len(cleaned_lines)] # <<>>
                  THEN LegalLoop(rest, Append(cleaned_lines, <<>>), skip_until_section)
                  ELSE LegalLoop(rest, cleaned_lines, skip_until_section)
             ELSE IF LEGAL_REGEX(line_stripped)
             THEN LegalLoop(rest, cleaned_lines,
                            skip_until_section \/ TextLen(line_stripped) < 100)
             ELSE LET skip == skip_until_section
                              /\ ~(TextLen(line_stripped) < 60 /\ EndsWithColon(line_stripped))
                  IN  LegalLoop(rest,
                                IF skip THEN cleaned_lines
                                ELSE Append(cleaned_lines, line_stripped),
                                skip)

\* _remove_legal_sections(text)
remove_legal_sections(text) == JoinLines(LegalLoop(SplitOn(text, "\n"), <<>>, FALSE))

\* keep the lexemes of t whose position is in the set keep
KeepAt(t, keep) ==
    LET F[i \in 0..Len(t)] ==
            IF i = 0 THEN <<>>
            ELSE IF i \in keep THEN Append(F[i - 1], t[i]) ELSE F[i - 1]
    IN  F[Len(t)]

\* re.sub(r'\n{3,}', '\n\n', text): of a run of newlines the first two stay
CollapseNewlines(text) ==
    KeepAt(text, {i \in 1..Len(text) :
                    ~(i >= 3 /\ text[i] = "\n" /\ text[i - 1] = "\n" /\ text[i - 2] = "\n")})

\* words made only of characters of the class of the pattern of
\* _final_cleanup: "-", the bullet U+2022, the middle dot U+00B7, "*", "|",
\* "/" and the backslash
PunctWords == {"--", "|", "*", "/"}

\* re.match of that pattern on the line: "^[...]+$" with whitespace in the
\* class
PurePunctuation(line) ==
    /\ TextLen(line) > 0
    /\ \A k \in 1..Len(line) : line[k] \in PunctWords \cup {""}

\* the test of the loop of _final_cleanup with the truth test of the line
\* left out
LineKept_BlankToo(line) ==
    /\ ~PurePunctuation(line)
    /\ (TextLen(Strip(line)) > 2 \/ Len(Strip(line)) = 0)

\* the test of the loop of _final_cleanup: "if line and not re.match(...)"
\* and then "if len(line.strip()) > 2 or line.strip() == ''"
LineKept(line) ==
    /\ TextLen(line) > 0
    /\ ~PurePunctuation(line)
    /\ (TextLen(Strip(line)) > 2 \/ Len(Strip(line)) = 0)

KeptLines(lines) == SelectSeq(lines, LineKept)

\* re.sub(r'[ \t]+', ' ', text): of a run of spaces one stays
CollapseSpaces(text) ==
    KeepAt(text, {i \in 1..Len(text) :
                    ~(/\ text[i] = ""
                      /\ i > 1 /\ text[i - 1] # "\n"
                      /\ i < Len(text) /\ text[i + 1] # "\n")})

\* re.sub(r'\n ', '\n', text): the space that follows a newline goes
UnindentLines(text) ==
    KeepAt(text, {i \in 1..Len(text) :
                    ~(/\ text[i] = ""
                      /\ i > 1 /\ text[i - 1] = "\n"
                      /\ i < Len(text) /\ text[i + 1] # "\n")})

\* _final_cleanup(text)
final_cleanup(text) ==
    Strip(UnindentLines(CollapseSpaces(
        JoinLines(KeptLines(SplitOn(CollapseNewlines(text), "\n"))))))

\* the content root selected first, boilerplate elements removed below it
CleanSteps_RootFirst(page) ==
    LET root      == ContentRoot(RemoveComments(RemoveTags(page.dom)))
        extracted == get_text([k \in 1..Len(root) |->
                                  [root[k] EXCEPT !.kids = remove_boilerplate_elements(@)]])
        legal     == remove_legal_sections(extracted)
    IN  [extracted |-> extracted, legal |-> legal, text |-> final_cleanup(legal)]

\* clean_html_content(html): the text after each step, text the one
\* returned
CleanSteps(page) ==
    LET soup      == RemoveComments(remove_boilerplate_elements(RemoveTags(page.dom)))
        extracted == extract_clean_text(soup)
        legal     == remove_legal_sections(extracted)
    IN  [extracted |-> extracted, legal |-> legal, text |-> final_cleanup(legal)]

(***************************************************************************)
(* The JSON-LD content of the model's pages.                               *)
(***************************************************************************)
Item(tkind, types, title, name, description, org, loc, sal) ==
    [dict |-> TRUE, tkind |-> tkind, types |-> types, title |-> title, name |-> name,
     description |-> description, hiringOrganization |-> org, jobLocation |-> loc,
     baseSalary |-> sal]

\* {"@type": "Organization", "name": "Acme"}
Organization ==
    Item("str", <<<<"Organization">>>>, <<>>, <<"Acme">>, <<>>, <<>>, <<>>, "absent")

\* a complete posting
Posting ==
    Item("str", <<<<"JobPosting">>>>, <<"Engineer">>, <<>>, <<"skills", "team">>,
         <<"Acme">>, <<"Berlin">>, "number")

\* "@type": ["Thing", "https://schema.org/JobPosting"], named by "name"
TypedByList ==
    Item("list", <<<<"Thing">>, <<"https://schema.org/", "JobPosting">>>>, <<>>,
         <<"", "Analyst">>, <<>>, <<>>, <<>>, "string")

\* {"@type": "JobPosting", "jobLocation": "Berlin"}
LocationOnly ==
    Item("str", <<<<"JobPosting">>>>, <<>>, <<>>, <<>>, <<>>, <<"Berlin">>, "absent")

\* {"@type": "JobPosting", "title": "  ", "name": "Clerk"}
BlankTitle ==
    Item("str", <<<<"JobPosting">>>>, <<"", "", "">>, <<"Clerk">>, <<>>, <<>>, <<>>, "absent")

\* {"@type": "JobPosting", "title": "Manager",
\*  "baseSalary": {"value": {"minValue": "50000"}}}
TextSalary ==
    Item("str", <<<<"JobPosting">>>>, <<"Manager">>, <<>>, <<"skills", "team">>,
         <<>>, <<>>, "text")

\* {"@type": "jobposting", "title": "Intern"}: the type test is case-sensitive
LowerCaseType ==
    Item("str", <<<<"jobposting">>>>, <<"Intern">>, <<>>, <<>>, <<>>, <<>>, "absent")

\* {"@context": "https://schema.org"}: an object without "@type"
Untyped == Item("str", <<<<>>>>, <<>>, <<>>, <<>>, <<>>, <<>>, "absent")

\* the JSON string "JobPosting": not an object
BareString == [Untyped EXCEPT !.dict = FALSE]

ArrayItems == {Organization, Posting, TypedByList, TextSalary, BareString}

GraphItems == {Organization, Posting, TextSalary}

\* arrays of one item or of two different items
Arrays(S) == {<<a>> : a \in S} \cup {p \in S \X S : p[1] # p[2]}

Block(kind, self, graph, items) ==
    [kind |-> kind, self |-> self, graph |-> graph, items |-> items]

MalformedBlock == Block("malformed", Untyped, FALSE, <<>>)

Blocks ==
    {Block("empty", Untyped, FALSE, <<>>), MalformedBlock,
     Block("scalar", Untyped, FALSE, <<>>), Block("list", Untyped, FALSE, <<>>)}
    \cup {Block("list", Untyped, FALSE, a) : a \in Arrays(ArrayItems)}
    \cup {Block("dict", i, FALSE, <<>>) :
            i \in {Organization, Posting, TypedByList, LocationOnly, BlankTitle,
                   TextSalary, LowerCaseType, Untyped}}
    \cup {Block("dict", i, TRUE, a) : i \in {Untyped, Posting}, a \in Arrays(GraphItems)}

\* the JSON-LD content of the pages the whole pipeline runs on: none, a
\* posting without a description, a posting with one
PipelineBlockLists ==
    {<<>>, <<Block("dict", LocationOnly, FALSE, <<>>)>>, <<Block("dict", Posting, FALSE, <<>>)>>}

FallbackBehaviours ==
    {[available |-> FALSE, raises |-> FALSE, extracted |-> MeaningfulText],
     [available |-> TRUE, raises |-> TRUE, extracted |-> <<>>]}
    \cup {[available |-> TRUE, raises |-> FALSE, extracted |-> t] : t \in ExtractedTexts}

\* DOM nodes
El(tag, class, role, kids) ==
    [tag |-> tag, class |-> class, id |-> "", role |-> role, text |-> <<>>, kids |-> kids]

Txt(t) == [tag |-> "#text", class |-> <<>>, id |-> "", role |-> "", text |-> t, kids |-> <<>>]

Cmt(t) == [tag |-> "#comment", class |-> <<>>, id |-> "", role |-> "", text |-> t, kids |-> <<>>]

\* <html><body>text</body></html>
BodyOf(t) == <<El("html", <<>>, "", <<El("body", <<>>, "", <<Txt(t)>>)>>)>>

\* the documents of the pages the whole pipeline runs on
PipelineDoms == {BodyOf(t) : t \in CleanedTexts}

Pages ==
    {[fetched |-> TRUE, blocks |-> bl, dom |-> d,
      available |-> fb.available, raises |-> fb.raises, extracted |-> fb.extracted] :
        bl \in PipelineBlockLists, d \in PipelineDoms, fb \in FallbackBehaviours}

\* clean_html_content(html)
clean_html_content(page) == CleanSteps(page).text

(***************************************************************************)
(* Spec: one run of the Pipeline Orchestrator on a URL and the page        *)
(* fetched for it.  States: Start, Classified, Canonicalized,              *)
(* StructuredTried, CleanTried, FallbackTried, Done; Aborted when a        *)
(* component raised instead of returning.                                  *)
(***************************************************************************)
Init ==
    /\ NoLogger
    /\ url \in PipelineURLs
    /\ pc = "Start"
    /\ platform = "none"
    /\ arg = "none"
    /\ resolved = NoResult
    /\ again = NoResult
    /\ html = NoPage
    /\ tiers = <<>>
    /\ result = NoExtraction

Extraction(t, src, ok) ==
    [text |-> t, source |-> src, meaningful |-> ok, platform |-> platform]

Longest_First(a, b) == a

\* the longer of the attempted outputs
Longest(a, b) == IF TextLen(a) >= TextLen(b) THEN a ELSE b

\* Start -> Classified: the Source Classifier
Classify ==
    /\ pc = "Start"
    /\ platform' = detect_source(url)
    /\ pc' = IF platform' = "ValueError" THEN "Aborted" ELSE "Classified"
    /\ UNCHANGED <<url, arg, resolved, again, html, tiers, result>>
    /\ UNCHANGED logvars

\* Classified -> Canonicalized: the URL Canonicalizer with the detected tag
Canonicalize ==
    /\ pc = "Classified"
    /\ arg' = platform
    /\ resolved' = resolve_url(url, platform)
    /\ pc' = IF resolved'.status = "ValueError" THEN "Aborted" ELSE "Canonicalized"
    /\ UNCHANGED <<url, platform, again, html, tiers, result>>
    /\ UNCHANGED logvars

\* Canonicalized -> StructuredTried: the page fetched for the canonical URL
\* arrives and structured extraction is attempted on it
TryStructured ==
    /\ pc = "Canonicalized"
    /\ html' \in Pages
    /\ tiers' = Append(tiers, "structured")
    /\ pc' = "StructuredTried"
    /\ UNCHANGED <<url, platform, arg, resolved, again, result>>
    /\ UNCHANGED logvars

HasDescription(page) ==
    LET record == extract_schema_job_posting(page)
    IN  record.found /\ Len(record.description) > 0

\* StructuredTried -> Done(Structured): a record with a description
DoneStructured ==
    /\ pc = "StructuredTried"
    /\ HasDescription(html)
    /\ result' = Extraction(extract_schema_job_posting(html).description, "Structured", TRUE)
    /\ pc' = "Done"
    /\ UNCHANGED <<url, platform, arg, resolved, again, html, tiers>>
    /\ UNCHANGED logvars

\* the Boilerplate Stripper run whatever structured extraction found
TryClean_Always ==
    /\ pc = "StructuredTried"
    /\ tiers' = Append(tiers, "cleaned")
    /\ pc' = "CleanTried"
    /\ UNCHANGED <<url, platform, arg, resolved, again, html, result>>
    /\ UNCHANGED logvars

\* StructuredTried -> CleanTried: the Boilerplate Stripper
TryClean ==
    /\ pc = "StructuredTried"
    /\ ~HasDescription(html)
    /\ tiers' = Append(tiers, "cleaned")
    /\ pc' = "CleanTried"
    /\ UNCHANGED <<url, platform, arg, resolved, again, html, result>>
    /\ UNCHANGED logvars

\* the stripped text accepted without validation
DoneCleaned_Unvalidated ==
    /\ pc = "CleanTried"
    /\ result' = Extraction(clean_html_content(html), "Cleaned", TRUE)
    /\ pc' = "Done"
    /\ UNCHANGED <<url, platform, arg, resolved, again, html, tiers>>
    /\ UNCHANGED logvars

\* CleanTried -> Done(Cleaned): the stripped text passes the validator
DoneCleaned ==
    /\ pc = "CleanTried"
    /\ is_meaningful_content(clean_html_content(html), DEFAULT_MIN_LENGTH)
    /\ result' = Extraction(clean_html_content(html), "Cleaned", TRUE)
    /\ pc' = "Done"
    /\ UNCHANGED <<url, platform, arg, resolved, again, html, tiers>>
    /\ UNCHANGED logvars

\* CleanTried -> FallbackTried: the Fallback Extractor on the original page
TryFallback ==
    /\ pc = "CleanTried"
    /\ ~is_meaningful_content(clean_html_content(html), DEFAULT_MIN_LENGTH)
    /\ tiers' = Append(tiers, "fallback")
    /\ pc' = "FallbackTried"
    /\ UNCHANGED <<url, platform, arg, resolved, again, html, result>>
    /\ UNCHANGED logvars

\* FallbackTried -> Done(Fallback) or Done(Unresolved)
DoneFallback ==
    /\ pc = "FallbackTried"
    /\ LET fallback == extract_with_fallback(html)
       IN  /\ result' =
                 IF fallback.raises THEN result
                 ELSE IF is_meaningful_content(fallback.text, DEFAULT_MIN_LENGTH)
                 THEN Extraction(fallback.text, "Fallback", TRUE)
                 ELSE Extraction(Longest(clean_html_content(html), fallback.text),
                                 "Unresolved", FALSE)
           /\ pc' = IF fallback.raises THEN "Aborted" ELSE "Done"
    /\ UNCHANGED <<url, platform, arg, resolved, again, html, tiers>>
    /\ UNCHANGED logvars

Next ==
    \/ Classify
    \/ Canonicalize
    \/ TryStructured
    \/ DoneStructured
    \/ TryClean
    \/ DoneCleaned
    \/ TryFallback
    \/ DoneFallback

Spec == Init /\ [][Next]_vars

(***************************************************************************)
(* Properties of the orchestrator (checked under Spec).                    *)
(***************************************************************************)
TierOrder == <<"structured", "cleaned", "fallback">>

TiersOf(src) ==
    CASE src = "Structured" -> Upto(TierOrder, 1)
      [] src = "Cleaned" -> Upto(TierOrder, 2)
      [] OTHER -> TierOrder

\* C1: the tiers are attempted in the order structured, cleaned, fallback:
\* the attempted tiers are always a prefix of that order, the Boilerplate
\* Stripper has run only if structured extraction found no record with a
\* description, the Fallback Extractor only if in addition the stripped text
\* failed the Content Validator, and a finished run has attempted exactly
\* the tiers up to the one that ended it.
C1_TiersInFixedOrder ==
    /\ tiers = Upto(TierOrder, Len(tiers))
    /\ Len(tiers) >= 2 => ~HasDescription(html)
    /\ Len(tiers) >= 3 =>
          /\ ~HasDescription(html)
          /\ ~is_meaningful_content(clean_html_content(html), DEFAULT_MIN_LENGTH)
    /\ pc = "Done" => tiers = TiersOf(result.source)

\* a run that went through all three tiers and ended tagged Fallback
C1_Witness ==
    /\ pc = "Done"
    /\ result.source = "Fallback"
    /\ tiers = TierOrder

\* C2: every run ends in exactly one of Done(Structured), Done(Cleaned),
\* Done(Fallback) or Unresolved; no component failure aborts it.
C2_RunEndsInAnOutcome ==
    /\ pc # "Aborted"
    /\ pc = "Done" => result.source \in {"Structured", "Cleaned", "Fallback", "Unresolved"}

(***************************************************************************)
(* Properties of the classifier and the canonicalizer (checked under       *)
(* SpecUrl).                                                               *)
(***************************************************************************)
\* the names of the parameters written in the query string of u, whatever
\* their values
QueryKeys(u) ==
    LET pieces == SplitOn(Urlparse(u).query, "&")
    IN  {Upto(pieces[i], FirstIn(pieces[i], {"="}, 1) - 1) : i \in 1..Len(pieces)}

\* C3: detect_source returns "greenhouse" for every URL whose query string
\* contains a gh_jid parameter, whatever the host, the position of the
\* parameter and its value.
C3_GhJidIsGreenhouse ==
    (pc = "detected" /\ <<"gh_jid">> \in QueryKeys(url)) => platform = "greenhouse"

\* C4: detect_source returns the first platform that matches in the order
\* Greenhouse, Lever, Workday, Generic, and "generic" exactly when no
\* platform rule matches.
C4_FirstMatchWins ==
    pc = "detected" =>
        LET gh == detect_greenhouse(url) = "True"
        IN  /\ gh => platform = "greenhouse"
            /\ (~gh /\ detect_lever(url)) => platform = "lever"
            /\ (~gh /\ ~detect_lever(url) /\ detect_workday(url)) => platform = "workday"
            /\ platform = "generic" <=> (~gh /\ ~detect_lever(url) /\ ~detect_workday(url))

\* some pattern of some platform matches the URL
SomePatternMatches(u) ==
    \/ AnyPattern(GREENHOUSE_PATTERNS(Lower(u)))
    \/ AnyPattern(LEVER_PATTERNS(Lower(u)))
    \/ AnyPattern(WORKDAY_PATTERNS(Lower(u)))

\* C5: detect_source never raises; a URL that cannot be parsed (and matches
\* no platform pattern) is classified "generic".
C5_DetectNeverRaises ==
    pc = "detected" =>
        /\ platform \in PlatformTags
        /\ (Urlparse(url).raises /\ ~SomePatternMatches(url)) => platform = "generic"

\* the host of u is the canonical Greenhouse host
OnCanonicalHost(u) == Lower(Urlparse(u).netloc) = CanonicalHost

\* C6: for a Greenhouse URL that is not on the canonical host and carries
\* gh_jid={id}, resolve_url returns rewritten=true and
\* https://boards.greenhouse.io/{token}/jobs/{id} when a company token is
\* resolvable, https://boards.greenhouse.io/embed/job_app?token={id} when
\* none is, whatever token parameter the URL also has.
C6_GhJidRewritten ==
    LET params == ParseQsl(Urlparse(url).query)
        id     == FirstParam(params, "gh_jid")
        token  == extract_greenhouse_company(url, params)
    IN  (/\ pc = "resolved"
         /\ arg = "greenhouse"
         /\ ~OnCanonicalHost(url)
         /\ HasParam(params, "gh_jid"))
        => resolved =
              IF token # <<>>
              THEN Returned(BoardsPrefix \o token \o <<"/", "jobs", "/">> \o id, TRUE)
              ELSE Returned(BoardsPrefix \o <<"embed", "/", "job_app", "?", "token", "=">>
                                \o id, TRUE)

\* C7: resolve_url(url, "greenhouse") returns the URL unchanged with
\* rewritten=false whenever the host is boards.greenhouse.io, whatever the
\* path and the query parameters.
C7_CanonicalUnchanged ==
    (pc = "resolved" /\ arg = "greenhouse" /\ OnCanonicalHost(url))
        => resolved = Returned(url, FALSE)

\* a canonical-host URL that carries a gh_jid parameter has been resolved
C7_Witness ==
    /\ pc = "resolved"
    /\ arg = "greenhouse"
    /\ OnCanonicalHost(url)
    /\ HasParam(ParseQsl(Urlparse(url).query), "gh_jid")
    /\ Len(Urlparse(url).path) > 0
    /\ resolved.status = "ok"

\* C8: the rewritten flag resolve_url returns is true exactly when the
\* returned URL differs from the input URL; for the tags workday and generic
\* the input URL is always returned unchanged with rewritten=false.
C8_FlagIffChanged ==
    pc \in {"resolved", "lever_once"} =>
        /\ resolved.status = "ok" => (resolved.rewritten <=> resolved.url # url)
        /\ arg \in {"workday", "generic"} => resolved = Returned(url, FALSE)

\* a Lever URL with a query string has been rewritten
C8_Witness ==
    /\ pc = "resolved"
    /\ arg = "lever"
    /\ Len(Urlparse(url).query) > 0
    /\ resolved.rewritten
    /\ resolved.url # url

\* lever.co or a subdomain of it
IsLeverHost(netloc) ==
    LET l == Lower(netloc)
    IN  \/ l = <<"lever", ".", "co">>
        \/ MatchAt(l, Len(l) - 3, <<".", "lever", ".", "co">>)

\* the path ends in an /apply or /apply/ segment
EndsInApply(path) ==
    \/ MatchAt(path, Len(path) - 1, <<"/", "apply">>)
    \/ MatchAt(path, Len(path) - 2, <<"/", "apply", "/">>)

\* C9: resolve_lever_url returns (url, false) for every URL whose host is
\* not a Lever host; for a Lever host it returns rewritten=true exactly when
\* a trailing /apply or /apply/ segment was removed, and (url, false)
\* otherwise.
C9_LeverStripsApply ==
    pc = "lever_once" =>
        LET parsed == Urlparse(url)
        IN  IF IsLeverHost(parsed.netloc) /\ EndsInApply(parsed.path)
            THEN /\ resolved.status = "ok"
                 /\ resolved.rewritten
                 /\ Urlparse(resolved.url).path = StripApply(parsed.path)
            ELSE resolved = Returned(url, FALSE)

\* C10: resolve_lever_url applied to the result of resolve_lever_url(u)
\* returns that same URL again with rewritten=false, for every Lever URL u.
C10_LeverIdempotent ==
    (pc = "lever_twice" /\ IsLeverHost(Urlparse(url).netloc))
        => again = Returned(resolved.url, FALSE)

(***************************************************************************)
(* SpecSchema: extract_schema_job_posting called on pages with every       *)
(* sequence of at most MaxBlocks JSON-LD blocks.  result holds what the    *)
(* call returned.                                                          *)
(***************************************************************************)
SchemaPage(bl) ==
    [fetched |-> TRUE, blocks |-> bl, dom |-> <<>>,
     available |-> FALSE, raises |-> FALSE, extracted |-> <<>>]

InitSchema ==
    /\ NoLogger
    /\ url = <<>>
    /\ pc = "idle"
    /\ platform = "none"
    /\ arg = "none"
    /\ resolved = NoResult
    /\ again = NoResult
    /\ \E n \in 0..MaxBlocks : \E bl \in [1..n -> Blocks] : html = SchemaPage(bl)
    /\ tiers = <<>>
    /\ result = NotFound

\* extract_schema_job_posting(html)
ExtractSchema ==
    /\ pc = "idle"
    /\ result' = extract_schema_job_posting(html)
    /\ pc' = "extracted"
    /\ UNCHANGED <<url, platform, arg, resolved, again, html, tiers>>
    /\ UNCHANGED logvars

NextSchema == ExtractSchema

SpecSchema == InitSchema /\ [][NextSchema]_vars

(***************************************************************************)
(* Properties of the Structured-Data Extractor (checked under SpecSchema). *)
(***************************************************************************)
\* the items of one block in the order the scan visits them
ItemsOf(block) ==
    CASE block.kind = "list" -> block.items
      [] block.kind = "dict" -> IF block.graph THEN <<block.self>> \o block.items
                                ELSE <<block.self>>
      [] OTHER -> <<>>

\* the items of a page in document order
RECURSIVE ItemsInOrder(_)
ItemsInOrder(blocks) ==
    IF Len(blocks) = 0 THEN <<>> ELSE ItemsOf(Head(blocks)) \o ItemsInOrder(Tail(blocks))

\* an object whose "@type" names JobPosting
IsPosting(item) ==
    /\ item.dict
    /\ item.tkind \in {"str", "list"}
    /\ \E k \in 1..Len(item.types) : "JobPosting" \in Range(item.types[k])

HasPosting(blocks) == \E k \in 1..Len(ItemsInOrder(blocks)) : IsPosting(ItemsInOrder(blocks)[k])

FirstPosting(blocks) ==
    LET items == ItemsInOrder(blocks)
    IN  items[Min({k \in 1..Len(items) : IsPosting(items[k])})]

\* C11: the call returns the normalization of the first JobPosting item in
\* document order; when the page has none it returns None; no later item
\* or block has a part in the result (when the first item cannot be
\* normalized the result is not taken from a later one).
C11_FirstPostingWins ==
    pc = "extracted" =>
        IF ~HasPosting(html.blocks) THEN result = NotFound
        ELSE IF normalize_job_posting(FirstPosting(html.blocks)).raises
             THEN result = NotFound
        ELSE result = Record(normalize_job_posting(FirstPosting(html.blocks)))

\* the page has a block that fails to parse and, after it, the block that
\* holds the first JobPosting of the page
PostingAfterMalformed(blocks) ==
    \E i \in 1..Len(blocks) :
        /\ blocks[i].kind = "malformed"
        /\ ~HasPosting(Upto(blocks, i))
        /\ HasPosting(From(blocks, i + 1))

\* C12: a block that fails to parse is skipped: the JobPosting of a later
\* well-formed block is still returned, and the call returns None when no
\* block holds a JobPosting.
C12_MalformedBlockSkipped ==
    pc = "extracted" =>
        /\ ~HasPosting(html.blocks) => result = NotFound
        /\ PostingAfterMalformed(html.blocks) => result.found

\* C13: a record reported as found has a title, a description or a company.
C13_FoundHasKeyField ==
    (pc = "extracted" /\ result.found) =>
        \/ Len(result.title) > 0
        \/ Len(result.description) > 0
        \/ Len(result.company) > 0

(***************************************************************************)
(* SpecClean: clean_html_content called on two families of documents: a    *)
(* body holding one text of at most MaxLines lines, each of one of the     *)
(* kinds below, and documents built from fragments put in the head, before *)
(* the content root, in it and after it.  result holds the text after text *)
(* extraction, after legal-text suppression and after final normalization. *)
(***************************************************************************)
LineKinds ==
    {<<"skills", "team">>,                      \* a text line
     <<"Equal", "opportunity", "employer">>,    \* a short legal line
     <<"pad", "all", "rights", "reserved">>,    \* a legal line of 100 or more
     <<"Benefits:">>,                           \* a section header
     <<"filler", "Benefits:">>,                 \* a colon line of 60 or more
     <<"Privacy", "policy", ":">>,              \* a legal line that ends with a colon
     <<>>,                                      \* a blank line
     <<"--">>,                                  \* a punctuation line
     <<"ab">>}                                  \* a line of two characters

\* texts with whitespace at the ends of lines, inside lines and on lines
\* of their own
SpacedTexts ==
    {<<"", "Details", "", "", "kept", "", "\n", "", "", "\n", "", "skills", "team">>,
     <<"Intro", "\n", "\n", "\n", "\n", "", "|", "", "\n", "\n", "pad", "\n", "", "">>,
     <<"\n", "", "Equal", "", "opportunity", "employer", "", "\n", "pad", "\n", "",
       "Benefits:", "", "\n", "*", "", "*">>}

\* fragments: nothing, visible text, text in a removed tag, the same text
\* outside one, a removed tag below and above a kept element, an element
\* with a boilerplate class, a comment
Fragments ==
    {<<>>,
     <<El("p", <<>>, "", <<Txt(<<"visible">>)>>)>>,
     <<El("p", <<>>, "", <<Txt(<<"secret">>)>>)>>,
     <<El("div", <<>>, "", <<El("footer", <<>>, "", <<Txt(<<"secret">>)>>), Txt(<<"kept">>)>>)>>,
     <<El("aside", <<>>, "", <<El("div", <<"job-content">>, "", <<Txt(<<"secret">>)>>)>>)>>,
     <<El("div", <<"Main-Nav">>, "", <<Txt(<<"hidden">>)>>)>>,
     <<Cmt(<<"hidden">>)>>}
    \cup {<<El(tag, <<>>, "", <<Txt(<<"secret">>)>>)>> : tag \in {"script", "nav", "form", "iframe"}}

\* html > (head, body > (before, main, after))
WithMain(h, a, m, b) ==
    <<El("html", <<>>, "",
         <<El("head", <<>>, "", h),
           El("body", <<>>, "", a \o <<El("main", <<>>, "", m)>> \o b)>>)>>

\* html > (head, body)
WithBody(h, a, b) ==
    <<El("html", <<>>, "", <<El("head", <<>>, "", h), El("body", <<>>, "", a \o b)>>)>>

\* sections of a page, each with a text of its own: <main>, an empty
\* <main>, <article>, an element with role "main", an element with a
\* content class, a paragraph, a <main> inside a <div>, and a <main>, an
\* <article> and a <div> that carry a boilerplate class, role or id
Sections ==
    {El("main", <<>>, "", <<Txt(<<"visible">>)>>),
     El("main", <<>>, "", <<>>),
     El("article", <<>>, "", <<Txt(<<"Details">>)>>),
     El("div", <<>>, "main", <<Txt(<<"Intro">>)>>),
     El("div", <<"card", "Job-Content">>, "", <<Txt(<<"skills">>)>>),
     El("p", <<>>, "", <<Txt(<<"kept">>)>>),
     El("div", <<>>, "", <<El("main", <<>>, "", <<Txt(<<"teamwork">>)>>), Txt(<<"team">>)>>),
     El("main", <<"Cookie-Banner">>, "", <<Txt(<<"hidden">>)>>),
     El("article", <<>>, "navigation", <<Txt(<<"secret">>)>>),
     [El("div", <<"content">>, "", <<Txt(<<"rights">>)>>) EXCEPT !.id = "sidebar"]}

\* <body>, plain or with a boilerplate class
BodyClasses == {<<>>, <<"legal">>}

\* html > (head > title, body > sections)
WithSections(class, secs) ==
    <<El("html", <<>>, "",
         <<El("head", <<>>, "", <<El("title", <<>>, "", <<Txt(<<"job">>)>>)>>),
           El("body", class, "", secs)>>)>>

CleanPage(d) ==
    [fetched |-> TRUE, blocks |-> <<>>, dom |-> d,
     available |-> FALSE, raises |-> FALSE, extracted |-> <<>>]

InitClean ==
    /\ NoLogger
    /\ url = <<>>
    /\ pc = "idle"
    /\ platform = "none"
    /\ arg = "none"
    /\ resolved = NoResult
    /\ again = NoResult
    /\ \/ \E n \in 0..MaxLines : \E l \in [1..n -> LineKinds] :
              html = CleanPage(BodyOf(JoinLines(l)))
       \/ \E t \in SpacedTexts : html = CleanPage(BodyOf(t))
       \/ \E h \in Fragments, a \in Fragments, m \in Fragments, b \in Fragments :
              html = CleanPage(WithMain(h, a, m, b))
       \/ \E h \in Fragments, a \in Fragments, b \in Fragments :
              html = CleanPage(WithBody(h, a, b))
       \/ \E a \in Fragments, b \in Fragments : html = CleanPage(a \o b)
       \/ \E n \in 0..MaxSections : \E secs \in [1..n -> Sections] :
              \/ \E c \in BodyClasses : html = CleanPage(WithSections(c, secs))
              \/ html = CleanPage(secs)
    /\ tiers = <<>>
    /\ result = [extracted |-> <<>>, legal |-> <<>>, text |-> <<>>]

\* clean_html_content(html)
Clean ==
    /\ pc = "idle"
    /\ result' = CleanSteps(html)
    /\ pc' = "cleaned"
    /\ UNCHANGED <<url, platform, arg, resolved, again, html, tiers>>
    /\ UNCHANGED logvars

NextClean == Clean

SpecClean == InitClean /\ [][NextClean]_vars

(***************************************************************************)
(* Properties of the Boilerplate Stripper (checked under SpecClean).       *)
(***************************************************************************)
\* the tags the removal set is described by
NamedRemovalTags ==
    {"script", "style", "nav", "header", "footer", "aside", "form",
     "button", "input", "select", "textarea", "label", "iframe", "svg", "canvas"}

\* the words of the strings of a tree that lie inside (want = TRUE) or
\* outside (want = FALSE) every subtree whose tag is in the removal set
RECURSIVE WordsWhere(_, _, _)
WordsWhere(nodes, inside, want) ==
    IF Len(nodes) = 0 THEN {}
    ELSE LET n    == Head(nodes)
             here == inside \/ n.tag \in NamedRemovalTags
         IN  (IF n.tag = "#text" /\ here = want THEN Range(n.text) \ {"", "\n"} ELSE {})
             \cup WordsWhere(n.kids, here, want)
             \cup WordsWhere(Tail(nodes), inside, want)

OnlyInRemovedSubtrees(dom) == WordsWhere(dom, FALSE, TRUE) \ WordsWhere(dom, FALSE, FALSE)

\* C14: a word that occurs only inside subtrees whose tag is in the removal
\* set does not occur in the text clean_html_content returns, wherever the
\* subtree is in the document.
C14_RemovedSubtreeTextAbsent ==
    pc = "cleaned" => \A w \in OnlyInRemovedSubtrees(html.dom) : w \notin Range(result.text)

\* a removed subtree below a kept element of the content root: the text
\* next to it is returned
C14_Witness ==
    /\ pc = "cleaned"
    /\ "secret" \in OnlyInRemovedSubtrees(html.dom)
    /\ "kept" \in Range(result.text)

\* the lines legal-text suppression reads, stripped
InputLines == [i \in 1..Len(SplitOn(result.extracted, "\n")) |->
                  Strip(SplitOn(result.extracted, "\n")[i])]

IsBlank(i) == Len(InputLines[i]) = 0

IsLegal(i) == ~IsBlank(i) /\ LEGAL_REGEX(InputLines[i])

\* a match that is shorter than 100 characters
StartsSuppression(i) == IsLegal(i) /\ TextLen(InputLines[i]) < 100

\* shorter than 60 characters and ends with a colon
EndsSuppression(i) ==
    ~IsBlank(i) /\ TextLen(InputLines[i]) < 60 /\ EndsWithColon(InputLines[i])

\* line i follows a short match with no section start after the match up
\* to and including line i
Suppressed(i) ==
    \E j \in 1..(i - 1) :
        /\ StartsSuppression(j)
        /\ \A k \in (j + 1)..i : ~EndsSuppression(k)

\* C15: no line of the returned text, and no line legal-text suppression
\* lets through, matches a legal pattern.
C15_NoLegalLineInOutput ==
    pc = "cleaned" =>
        /\ \A k \in 1..Len(SplitOn(result.text, "\n")) :
              ~LEGAL_REGEX(SplitOn(result.text, "\n")[k])
        /\ \A k \in 1..Len(SplitOn(result.legal, "\n")) :
              ~LEGAL_REGEX(SplitOn(result.legal, "\n")[k])

\* a legal line of 100 characters or more, and a legal line that is read
\* while suppression is active and looks like a section start, on a page
\* that keeps some text
C15_Witness ==
    /\ pc = "cleaned"
    /\ Len(result.text) > 0
    /\ \E i \in 1..Len(InputLines) : IsLegal(i) /\ ~StartsSuppression(i)
    /\ \E i \in 2..Len(InputLines) :
          IsLegal(i) /\ EndsSuppression(i) /\ (i = 2 \/ Suppressed(i - 1)) /\ StartsSuppression(1)

\* the non-blank lines that are neither matches nor suppressed
KeptIndexes ==
    {i \in 1..Len(InputLines) : ~IsBlank(i) /\ ~IsLegal(i) /\ ~Suppressed(i)}

\* the blank lines that directly follow a kept line, whatever lines that
\* are not kept lie between
KeptBlanks ==
    {i \in 1..Len(InputLines) :
        /\ IsBlank(i)
        /\ \E p \in KeptIndexes :
              /\ p < i
              /\ \A q \in (p + 1)..(i - 1) : q \notin KeptIndexes /\ ~IsBlank(q)}

\* the lines legal-text suppression lets through
LegalLines == IF Len(result.legal) = 0 THEN <<>> ELSE SplitOn(result.legal, "\n")

NonBlank(line) == Len(line) > 0

\* C16 as stated: after a match shorter than 100 characters every following
\* line is suppressed up to the first line shorter than 60 characters that
\* ends with a colon; a match of 100 characters or more is dropped alone.
\* The non-blank lines let through are exactly the lines that are neither
\* matches nor suppressed, and no blank line of a suppressed stretch is let
\* through.
C16_SuppressionUntilSectionStart ==
    pc = "cleaned" =>
        /\ SelectSeq(LegalLines, NonBlank) = KeepAt(InputLines, KeptIndexes)
        /\ Cardinality({k \in 1..Len(LegalLines) : ~NonBlank(LegalLines[k])})
              <= Cardinality({i \in 1..Len(InputLines) : IsBlank(i) /\ ~Suppressed(i)})

\* C16 amended: the same for the non-blank lines; blank lines are not
\* subject to suppression: a blank line is let through, also inside a
\* suppressed stretch, when the last line let through is not blank.
C16_NonBlankSuppressedUntilSectionStart ==
    pc = "cleaned" =>
        result.legal = JoinLines(KeepAt(InputLines, KeptIndexes \cup KeptBlanks))

\* a short match, a suppressed text line, a section start and a kept line
C16_Witness ==
    /\ pc = "cleaned"
    /\ \E i \in 1..(Len(InputLines) - 3) :
          /\ StartsSuppression(i)
          /\ ~IsBlank(i + 1) /\ ~IsLegal(i + 1) /\ Suppressed(i + 1)
          /\ EndsSuppression(i + 2) /\ (i + 2) \in KeptIndexes
          /\ (i + 3) \in KeptIndexes

\* a line of 3 or more characters that is not a punctuation/whitespace run
IsTextLine(line) ==
    /\ TextLen(Strip(line)) >= 3
    /\ \E k \in 1..Len(line) : line[k] \notin PunctWords \cup {""}

\* the lines of the returned text
OutputLines == IF Len(result.text) = 0 THEN <<>> ELSE SplitOn(result.text, "\n")

\* C17: final normalization drops the punctuation/whitespace runs and the
\* lines of fewer than 3 characters and keeps blank lines: every line of the
\* returned text is blank or a text line, and a single blank line between
\* two text lines of the text before final normalization is still between
\* them in the returned text.
C17_BlankLinesKept ==
    pc = "cleaned" =>
        /\ \A k \in 1..Len(OutputLines) :
              Len(OutputLines[k]) = 0 \/ IsTextLine(OutputLines[k])
        /\ \A i \in 2..(Len(LegalLines) - 1) :
              (/\ Len(LegalLines[i]) = 0
               /\ IsTextLine(LegalLines[i - 1])
               /\ IsTextLine(LegalLines[i + 1]))
              => Contains(result.text,
                          CollapseSpaces(LegalLines[i - 1]) \o <<"\n", "\n">>
                              \o CollapseSpaces(LegalLines[i + 1]))

\* C18: the returned text has no three consecutive newlines and no
\* whitespace at its ends.
C18_NoBlankRunNoOuterWhitespace ==
    pc = "cleaned" =>
        /\ ~Contains(result.text, <<"\n", "\n", "\n">>)
        /\ Len(result.text) > 0 =>
              /\ result.text[1] \notin {"", "\n"}
              /\ result.text[Len(result.text)] \notin {"", "\n"}

\* before final normalization a punctuation line or a line of fewer than 3
\* characters lies between two blank lines that separate text lines
C18_Witness ==
    /\ pc = "cleaned"
    /\ \E i \in 2..(Len(LegalLines) - 3) :
          /\ IsTextLine(LegalLines[i - 1])
          /\ Len(LegalLines[i]) = 0
          /\ Len(LegalLines[i + 1]) > 0 /\ ~IsTextLine(LegalLines[i + 1])
          /\ Len(LegalLines[i + 2]) = 0
          /\ IsTextLine(LegalLines[i + 3])

(***************************************************************************)
(* The Content Validator and the readability fallback on their own: a text *)
(* of at most MaxWords lexemes, alone or after a 200-character passage, is *)
(* what the readability library extracts from the page.                    *)
(***************************************************************************)
TextWords == {"pad", "skills", "Skills", "TEAM", "teamwork", "role",
              "job", "description", "", "\n"}

TextPrefixes == {<<>>, <<"pad", "pad">>}

\* min_length: none, the length of "skills  team", the default
MinLengths == {0, 12, DEFAULT_MIN_LENGTH}

TextPage(t, a, r) ==
    [fetched |-> TRUE, blocks |-> <<>>, dom |-> <<>>,
     available |-> a, raises |-> r, extracted |-> t]

InitText ==
    /\ NoLogger
    /\ url = <<>>
    /\ pc = "idle"
    /\ platform = "none"
    /\ arg = "none"
    /\ resolved = NoResult
    /\ again = NoResult
    /\ \E p \in TextPrefixes : \E n \in 0..MaxWords : \E w \in [1..n -> TextWords] :
          \E a \in BOOLEAN, r \in BOOLEAN : html = TextPage(p \o w, a, r)
    /\ tiers = <<>>
    /\ result = [min_length |-> 0, meaningful |-> FALSE, raises |-> FALSE, text |-> <<>>]

\* is_meaningful_content(text, min_length)
Validate ==
    /\ pc = "idle"
    /\ \E m \in MinLengths :
          result' = [result EXCEPT !.min_length = m,
                                   !.meaningful = is_meaningful_content(html.extracted, m)]
    /\ pc' = "validated"
    /\ UNCHANGED <<url, platform, arg, resolved, again, html, tiers>>
    /\ UNCHANGED logvars

\* extract_with_fallback(html)
Fallback ==
    /\ pc = "idle"
    /\ LET fallback == extract_with_fallback(html)
       IN  result' = [result EXCEPT !.raises = fallback.raises, !.text = fallback.text]
    /\ pc' = "fallback"
    /\ UNCHANGED <<url, platform, arg, resolved, again, html, tiers>>
    /\ UNCHANGED logvars

NextText == Validate \/ Fallback

SpecText == InitText /\ [][NextText]_vars

\* the vocabulary terms that occur in the text, upper and lower case alike
TermsIn(t) == {k \in 1..Len(job_keywords) : KeywordIn(Lower(t), job_keywords[k])}

\* the text has no character, or whitespace only
IsWhitespace(t) == \A i \in 1..Len(t) : t[i] \in {"", "\n"}

\* C19: is_meaningful_content(text, min_length) is true exactly when the text
\* has at least min_length characters and at least two distinct vocabulary
\* terms occur in it, in whatever case; so it is false for the empty and the
\* whitespace-only text under the default min_length, and for a text that is
\* long enough but has fewer than two terms.
C19_MeaningfulIffLongAndTwoTerms ==
    pc = "validated" =>
        /\ result.meaningful <=>
              /\ TextLen(html.extracted) >= result.min_length
              /\ \E j \in TermsIn(html.extracted), k \in TermsIn(html.extracted) : j # k
        /\ (IsWhitespace(html.extracted) /\ result.min_length = DEFAULT_MIN_LENGTH)
              => ~result.meaningful
        /\ (TextLen(html.extracted) >= result.min_length
                /\ Cardinality(TermsIn(html.extracted)) < 2)
              => ~result.meaningful

\* a text whose two terms are written in upper case is accepted at exactly
\* min_length characters
C19_Witness ==
    /\ pc = "validated"
    /\ result.meaningful
    /\ result.min_length > 0
    /\ TextLen(html.extracted) = result.min_length
    /\ Cardinality({k \in 1..Len(job_keywords) :
                       KeywordIn(html.extracted, job_keywords[k])}) < 2

\* C20: extract_with_fallback never raises; it returns the empty string when
\* the readability library is unavailable, raises or yields no content, and
\* the extracted text unchanged otherwise.
C20_FallbackNeverRaises ==
    pc = "fallback" =>
        /\ ~result.raises
        /\ result.text = IF \/ ~html.available
                            \/ html.raises
                            \/ TextLen(html.extracted) = 0
                         THEN <<>>
                         ELSE html.extracted

\* the library is available and raises on a page it could extract text from
C20_Witness ==
    /\ pc = "fallback"
    /\ html.available
    /\ html.raises
    /\ TextLen(html.extracted) > 0
    /\ result.text = <<>>
    /\ ~result.raises

(***************************************************************************)
(* Further properties of the orchestrator (checked under Spec).            *)
(***************************************************************************)
\* the outputs of the tiers a run that reached the fallback has attempted
\* (structured extraction yielded no description there)
AttemptedOutputs(page) == {clean_html_content(page), extract_with_fallback(page).text}

\* C21: a run whose cleaned text and fallback text both fail the validator
\* ends Unresolved, carrying one of the attempted outputs that is at least as
\* long as every other; a run whose fallback text passes the validator ends
\* tagged Fallback with exactly the fallback text.
C21_UnresolvedCarriesLongest ==
    (pc = "Done" /\ tiers = TierOrder) =>
        IF is_meaningful_content(extract_with_fallback(html).text, DEFAULT_MIN_LENGTH)
        THEN /\ result.source = "Fallback"
             /\ result.text = extract_with_fallback(html).text
        ELSE /\ result.source = "Unresolved"
             /\ result.text \in AttemptedOutputs(html)
             /\ \A t \in AttemptedOutputs(html) : TextLen(result.text) >= TextLen(t)

\* an Unresolved run whose fallback text is longer than its cleaned text
C21_Witness ==
    /\ pc = "Done"
    /\ result.source = "Unresolved"
    /\ TextLen(extract_with_fallback(html).text) > TextLen(clean_html_content(html))
    /\ TextLen(clean_html_content(html)) > 0
    /\ result.text = extract_with_fallback(html).text

\* C22: in every terminal state either the meaningful flag is true, and then
\* the text of the result passes the Content Validator, or all three tiers
\* have been attempted; runs tagged Structured included.
C22_TerminalMeaningfulOrExhausted ==
    pc = "Done" =>
        \/ /\ result.meaningful
           /\ is_meaningful_content(result.text, DEFAULT_MIN_LENGTH)
        \/ tiers = TierOrder

\* C22 (amended): in every terminal state either the meaningful flag is true
\* or all three tiers have been attempted.  For a run tagged Cleaned or
\* Fallback the flag is true and the text passes the Content Validator; for
\* a run tagged Structured the flag is true and the text is the non-empty
\* description of the structured record, whether it passes the Content
\* Validator or not; for an Unresolved run the flag is false and all three
\* tiers were attempted.
C22_TerminalFlagOrExhausted ==
    pc = "Done" =>
        /\ result.meaningful \/ tiers = TierOrder
        /\ result.source \in {"Cleaned", "Fallback"} =>
              /\ result.meaningful
              /\ is_meaningful_content(result.text, DEFAULT_MIN_LENGTH)
        /\ result.source = "Structured" =>
              /\ result.meaningful
              /\ TextLen(result.text) > 0
              /\ result.text = extract_schema_job_posting(html).description
        /\ result.source = "Unresolved" =>
              /\ ~result.meaningful
              /\ tiers = TierOrder

\* a run that ended tagged Structured after one tier, with a description
\* that the Content Validator rejects
C22_Witness ==
    /\ pc = "Done"
    /\ result.source = "Structured"
    /\ result.meaningful
    /\ tiers = <<"structured">>
    /\ ~is_meaningful_content(result.text, DEFAULT_MIN_LENGTH)

(***************************************************************************)
(* utils/logger.py: the singleton StreamlitLogHandler used from several    *)
(* threads.  A list is an object of the heap: logs is the object the       *)
(* attribute self.logs refers to, append changes that object in place,     *)
(* slicing and list() make new objects.  An entry is <<thread, number>>;   *)
(* the entries <<"old", i>> are in the buffer when the threads start.      *)
(* Every component of the pipeline reports through logger.info, which      *)
(* hands the record to emit on the calling thread.                         *)
(***************************************************************************)
max_logs == 100

Threads == {"run_a", "run_b", "ui"}

\* enough list objects for self.logs, one returned list per thread and the
\* one being made
Ids == 1..(Cardinality(Threads) + 2)

\* the last n entries of a list: l[-n:]
Last(l, n) == IF Len(l) <= n THEN l ELSE SubSeq(l, Len(l) - n + 1, Len(l))

OldEntries(n) == [i \in 1..n |-> <<"old", i>>]

\* the buffer is empty, nearly full or full
InitialFill == {0, max_logs - 1, max_logs}

IdleThread == [pc |-> "idle", calls |-> 0, entry |-> <<>>, returned |-> 0, expected |-> <<>>]

InitLog ==
    /\ url = <<>>
    /\ pc = "threads"
    /\ platform = "none"
    /\ arg = "none"
    /\ resolved = NoResult
    /\ again = NoResult
    /\ html = NoPage
    /\ tiers = <<>>
    /\ result = NoExtraction
    /\ logs = 1
    /\ \E n \in InitialFill :
          /\ heap = [i \in Ids |-> IF i = 1 THEN OldEntries(n) ELSE <<>>]
          /\ emitted = OldEntries(n)
    /\ lock = "free"
    /\ threads = [t \in Threads |-> IdleThread]

\* the list objects something refers to
Referenced(l, th) == {l} \cup ({th[t].returned : t \in Threads} \ {0})

\* a new list object: one that nothing refers to
NewId == CHOOSE i \in Ids : i \notin Referenced(logs, threads)

\* list objects that nothing refers to any more are gone
Collect(h, l, th) == [i \in Ids |-> IF i \in Referenced(l, th) THEN h[i] ELSE <<>>]

At(t, label) == threads[t].pc = label

RECURSIVE Calls(_)
Calls(S) ==
    IF S = {} THEN 0
    ELSE LET t == CHOOSE x \in S : TRUE IN threads[t].calls + Calls(S \ {t})

\* a thread may start one more call
MayCall == Calls(Threads) < MaxCalls

Goto(t, label) == [threads EXCEPT ![t].pc = label]

\* emit(record), line 36: msg = self.format(record), before the lock is taken
EmitFormat(t) ==
    /\ At(t, "idle")
    /\ MayCall
    /\ threads' = [threads EXCEPT ![t].pc = "emit_lock",
                                  ![t].calls = @ + 1,
                                  ![t].entry = <<t, threads[t].calls + 1>>]
    /\ UNCHANGED <<logs, heap, lock, emitted>>

\* emit, line 37: with self._lock
EmitAcquire(t) ==
    /\ At(t, "emit_lock")
    /\ lock = "free"
    /\ lock' = t
    /\ threads' = Goto(t, "emit_append")
    /\ UNCHANGED <<logs, heap, emitted>>

\* emit, lines 38-42: self.logs.append(...)
EmitAppend(t) ==
    /\ At(t, "emit_append")
    /\ heap' = [heap EXCEPT ![logs] = Append(@, threads[t].entry)]
    /\ emitted' = Append(emitted, threads[t].entry)
    /\ threads' = Goto(t, "emit_trim")
    /\ UNCHANGED <<logs, lock>>

\* emit, lines 44-45: if len(self.logs) > self.max_logs:
\*                        self.logs = self.logs[-self.max_logs:]
EmitTrim(t) ==
    /\ At(t, "emit_trim")
    /\ IF Len(heap[logs]) > max_logs
       THEN /\ logs' = NewId
            /\ heap' = Collect([heap EXCEPT ![NewId] = Last(heap[logs], max_logs)],
                               NewId, threads)
       ELSE UNCHANGED <<logs, heap>>
    /\ threads' = Goto(t, "emit_unlock")
    /\ UNCHANGED <<lock, emitted>>

\* emit: the end of the with block
EmitRelease(t) ==
    /\ At(t, "emit_unlock")
    /\ lock' = "free"
    /\ threads' = Goto(t, "idle")
    /\ UNCHANGED <<logs, heap, emitted>>

\* get_logs(), line 51: with self._lock
GetAcquire(t) ==
    /\ At(t, "idle")
    /\ MayCall
    /\ lock = "free"
    /\ lock' = t
    /\ threads' = [threads EXCEPT ![t].pc = "get_copy", ![t].calls = @ + 1,
                                  ![t].returned = 0, ![t].expected = <<>>]
    /\ heap' = Collect(heap, logs, threads')
    /\ UNCHANGED <<logs, emitted>>

\* the list of the handler itself handed out
GetCopy_Alias(t) ==
    /\ At(t, "get_copy")
    /\ threads' = [threads EXCEPT ![t].pc = "get_unlock",
                                  ![t].returned = logs,
                                  ![t].expected = Last(emitted, max_logs)]
    /\ UNCHANGED <<logs, heap, lock, emitted>>

\* get_logs, line 52: list(self.logs), a new list with the same entries.
\* expected records what the call is to return: the last max_logs entries
\* appended since the last clear.
GetCopy(t) ==
    /\ At(t, "get_copy")
    /\ heap' = [heap EXCEPT ![NewId] = heap[logs]]
    /\ threads' = [threads EXCEPT ![t].pc = "get_unlock",
                                  ![t].returned = NewId,
                                  ![t].expected = Last(emitted, max_logs)]
    /\ UNCHANGED <<logs, lock, emitted>>

\* get_logs: the end of the with block; the list is returned
GetRelease(t) ==
    /\ At(t, "get_unlock")
    /\ lock' = "free"
    /\ threads' = Goto(t, "idle")
    /\ UNCHANGED <<logs, heap, emitted>>

\* clear_logs(), line 56: with self._lock
ClearAcquire(t) ==
    /\ At(t, "idle")
    /\ MayCall
    /\ lock = "free"
    /\ lock' = t
    /\ threads' = [threads EXCEPT ![t].pc = "clear_assign", ![t].calls = @ + 1]
    /\ UNCHANGED <<logs, heap, emitted>>

\* clear_logs, line 57: self.logs = []
ClearAssign(t) ==
    /\ At(t, "clear_assign")
    /\ logs' = NewId
    /\ heap' = Collect([heap EXCEPT ![NewId] = <<>>], NewId, threads)
    /\ emitted' = <<>>
    /\ threads' = Goto(t, "clear_unlock")
    /\ UNCHANGED lock

\* clear_logs: the end of the with block
ClearRelease(t) ==
    /\ At(t, "clear_unlock")
    /\ lock' = "free"
    /\ threads' = Goto(t, "idle")
    /\ UNCHANGED <<logs, heap, emitted>>

Emit == \E t \in Threads : (EmitFormat(t) \/ EmitAcquire(t)) /\ UNCHANGED runvars

EmitLocked ==
    \E t \in Threads : (EmitAppend(t) \/ EmitTrim(t) \/ EmitRelease(t)) /\ UNCHANGED runvars

GetLogs ==
    \E t \in Threads : (GetAcquire(t) \/ GetCopy(t) \/ GetRelease(t)) /\ UNCHANGED runvars

ClearLogs ==
    \E t \in Threads : (ClearAcquire(t) \/ ClearAssign(t) \/ ClearRelease(t))
                           /\ UNCHANGED runvars

NextLog == Emit \/ EmitLocked \/ GetLogs \/ ClearLogs

SpecLog == InitLog /\ [][NextLog]_vars

\* thread t is inside a logger.info call of a pipeline component
Reporting(t) ==
    threads[t].pc \in {"emit_lock", "emit_append", "emit_trim", "emit_unlock"}

\* C23: running a component of the pipeline changes no state shared between
\* runs and takes no lock: the log buffer holds nothing a run has written
\* and no thread that is inside a component holds the lock.
C23_NoSharedStateNoLock ==
    pc = "threads" =>
        /\ \A i \in 1..Len(heap[logs]) : heap[logs][i][1] = "old"
        /\ \A t \in Threads : Reporting(t) => lock # t

\* the list the last get_logs call of thread t returned
ReturnedTo(t) == heap[threads[t].returned]

\* C30: under every interleaving of emit, get_logs and clear_logs, a list
\* that get_logs returned holds at most 100 entries, holds exactly the most
\* recent entries appended since the last clear_logs before the call, in the
\* order of emission and each once, and stays as it was returned whatever is
\* emitted or cleared afterwards.
C30_ReturnedLogsAreASnapshot ==
    pc = "threads" =>
        \A t \in Threads :
            threads[t].returned # 0 =>
                /\ Len(ReturnedTo(t)) <= max_logs
                /\ ReturnedTo(t) = threads[t].expected
                /\ Cardinality(Range(ReturnedTo(t))) = Len(ReturnedTo(t))

\* a returned list of 100 entries, the oldest entry pushed out by an emit
\* before the call, and another entry appended to the buffer after the call
C30_Witness ==
    /\ pc = "threads"
    /\ \E t \in Threads :
          /\ At(t, "idle")
          /\ threads[t].returned # 0
          /\ Len(ReturnedTo(t)) = max_logs
          /\ ReturnedTo(t)[1] # <<"old", 1>>
          /\ ReturnedTo(t)[max_logs][1] # "old"
          /\ Len(emitted) > 0
          /\ Last(emitted, max_logs) # ReturnedTo(t)

(***************************************************************************)
(* Further properties of the classifier and the canonicalizer (checked     *)
(* under SpecUrl).                                                         *)
(***************************************************************************)
\* the same word in the other letter case
SwapCase(w) ==
    CASE w = "gh_jid" -> "GH_JID"
      [] w = "GH_JID" -> "gh_jid"
      [] w = "boards" -> "BOARDS"
      [] w = "BOARDS" -> "boards"
      [] OTHER -> w

\* position i of u lies in the host or the path, or is the name of a query
\* parameter
InHostPathOrName(u, i) ==
    \/ i > Len(Scheme) /\ i < FirstIn(u, {"?"}, 1)
    \/ i > 1 /\ u[i - 1] \in {"?", "&"}

\* the URLs that differ from u only in letter case, in the host, the path
\* or the names of the query parameters
CaseVariants(u) ==
    LET open == {i \in 1..Len(u) : InHostPathOrName(u, i) /\ SwapCase(u[i]) # u[i]}
    IN  {[i \in 1..Len(u) |-> IF i \in S THEN SwapCase(u[i]) ELSE u[i]] : S \in SUBSET open}

\* C24: detect_source returns the same tag for a URL and for every variant
\* of it that differs only in letter case in the host, the path or the
\* names of the query parameters.
C24_CaseInsensitive ==
    pc = "detected" => \A v \in CaseVariants(url) : detect_source(v) = platform

\* the embed form for a job id or token
EmbedForm(id) == BoardsPrefix \o <<"embed", "/", "job_app", "?", "token", "=">> \o id

\* C25: for a Greenhouse URL that is not on the canonical host and has
\* neither a gh_jid parameter nor a usable token parameter, a numeric job id
\* in the path is resolved as a gh_jid id is: to
\* https://boards.greenhouse.io/{token}/jobs/{id} when a company token is
\* resolvable, to the embed form with the id when none is, rewritten=true in
\* both cases; without such an id the URL is returned with rewritten=false.
C25_PathIdResolvedLikeGhJid ==
    LET parsed == Urlparse(url)
        params == ParseQsl(parsed.query)
        id     == PathJobId(parsed.path)
        token  == extract_greenhouse_company(url, params)
    IN  (/\ pc = "resolved"
         /\ arg = "greenhouse"
         /\ ~OnCanonicalHost(url)
         /\ ~HasParam(params, "gh_jid")
         /\ ~(HasParam(params, "token") /\ Contains(Lower(url), <<"greenhouse">>)))
        => resolved =
              IF id = <<>> THEN Returned(url, FALSE)
              ELSE IF token # <<>>
              THEN Returned(BoardsPrefix \o token \o <<"/", "jobs", "/">> \o id, TRUE)
              ELSE Returned(EmbedForm(id), TRUE)

(***************************************************************************)
(* Further properties of the Boilerplate Stripper (checked under           *)
(* SpecClean).                                                             *)
(***************************************************************************)
\* the words of the strings of a tree that lie inside (want = TRUE) or
\* outside (want = FALSE) every element whose class list, id or role holds
\* a boilerplate pattern
RECURSIVE WordsByPattern(_, _, _)
WordsByPattern(nodes, inside, want) ==
    IF Len(nodes) = 0 THEN {}
    ELSE LET n    == Head(nodes)
             here == inside \/ (n.tag \notin {"#text", "#comment"} /\ BOILERPLATE_REGEX(n))
         IN  (IF n.tag = "#text" /\ here = want THEN Range(n.text) \ {"", "\n"} ELSE {})
             \cup WordsByPattern(n.kids, here, want)
             \cup WordsByPattern(Tail(nodes), inside, want)

OnlyInBoilerplate(dom) == WordsByPattern(dom, FALSE, TRUE) \ WordsByPattern(dom, FALSE, FALSE)

\* some <main>, <article> or <body> of the page holds a boilerplate pattern
\* in its class list, id or role
RootIsBoilerplate(dom) ==
    \E k \in 1..Len(Descendants(dom)) :
        /\ Descendants(dom)[k].tag \in {"main", "article", "body"}
        /\ BOILERPLATE_REGEX(Descendants(dom)[k])

\* C26: an element whose class list, id or role holds a boilerplate pattern
\* (in whatever letter case) is removed with its subtree before the content
\* root is selected: a word that occurs only inside such elements does not
\* occur in the text clean_html_content returns, also when the element is
\* the <main>, <article> or <body> of the page.
C26_BoilerplateRemovedBeforeRoot ==
    pc = "cleaned" =>
        \A w \in OnlyInBoilerplate(html.dom) :
            w \notin Range(result.text) \cup Range(result.extracted)

\* the <main> of the page carries a boilerplate class; its text is not
\* returned, the text of the <article> after it is
C26_Witness ==
    /\ pc = "cleaned"
    /\ RootIsBoilerplate(html.dom)
    /\ "hidden" \in OnlyInBoilerplate(html.dom)
    /\ result.text = <<"Details">>

\* the document the content root is selected in: what the removal of tags,
\* of boilerplate elements and of comments leaves
Stripped(dom) == RemoveComments(remove_boilerplate_elements(RemoveTags(dom)))

\* the first element of the document, in document order, that passes the
\* test; <<>> when there is none
FirstElement(doc, Test(_)) ==
    LET all  == Descendants(doc)
        hits == {k \in 1..Len(all) : all[k].tag \notin {"#text", "#comment"} /\ Test(all[k])}
    IN  IF hits = {} THEN <<>> ELSE <<all[Min(hits)]>>

\* the candidates for the content root, in the order of preference
RootCandidates(doc) ==
    <<FirstElement(doc, LAMBDA e : e.tag = "main"),
      FirstElement(doc, LAMBDA e : e.tag = "article"),
      FirstElement(doc, LAMBDA e : e.role = "main"),
      FirstElement(doc, LAMBDA e : \E c \in Range(Lower(e.class)) : c \in ContentClassWords),
      FirstElement(doc, LAMBDA e : e.tag = "body"),
      doc>>

\* the first candidate that exists
ChosenRoot(doc) ==
    RootCandidates(doc)[Min({k \in 1..6 : k = 6 \/ RootCandidates(doc)[k] # <<>>})]

\* the words of the strings of a tree
RECURSIVE WordsOf(_)
WordsOf(nodes) ==
    IF Len(nodes) = 0 THEN {}
    ELSE (IF Head(nodes).tag = "#text" THEN Range(Head(nodes).text) \ {"", "\n"} ELSE {})
         \cup WordsOf(Head(nodes).kids) \cup WordsOf(Tail(nodes))

\* C27: the content root is the first that exists among the first <main>,
\* the first <article>, the first element with role "main", the first
\* element with a job/content/description class, the <body>, and the whole
\* document (of what the removal steps have left); the text extracted is
\* the text of that root even if it has none, and a word that lies only
\* outside the root is not returned.
C27_FirstContentRootWins ==
    pc = "cleaned" =>
        LET doc  == Stripped(html.dom)
            root == ChosenRoot(doc)
        IN  /\ result.extracted = get_text(root)
            /\ \A w \in WordsOf(doc) \ WordsOf(root) :
                   w \notin Range(result.text) \cup Range(result.extracted)

\* an empty <main> is chosen although an <article> before it and the rest
\* of the <body> have text: nothing is returned
C27_Witness ==
    /\ pc = "cleaned"
    /\ LET doc == Stripped(html.dom)
       IN  /\ ChosenRoot(doc) = <<El("main", <<>>, "", <<>>)>>
           /\ RootCandidates(doc)[2] # <<>>
           /\ RootCandidates(doc)[5] # <<>>
           /\ "Details" \in WordsOf(doc)
    /\ result.text = <<>>

\* C28: when resolve_lever_url rewrites a URL, the returned URL is the input
\* without its trailing /apply or /apply/ segment: scheme, host, the rest
\* of the path, query string and fragment are those of the input.
C28_LeverKeepsTheRest ==
    (pc = "lever_once" /\ resolved.status = "ok" /\ resolved.rewritten) =>
        LET given    == Urlparse(url)
            returned == Urlparse(resolved.url)
        IN  /\ returned.scheme = given.scheme
            /\ returned.netloc = given.netloc
            /\ returned.path = StripApply(given.path)
            /\ returned.query = given.query
            /\ returned.fragment = given.fragment

(***************************************************************************)
(* fetch_url (extractor/fetcher.py): one HTTP GET and the classification   *)
(* of its outcome.  requests.get is the environment: it answers with a     *)
(* response or raises.  Optional values are sequences of length 0 or 1.    *)
(***************************************************************************)
None == <<>>

Some(v) == <<v>>

\* requests.exceptions: the classes an exception is an instance of
Mro(class) ==
    CASE class = "ConnectTimeout" ->
            {"ConnectTimeout", "ConnectionError", "Timeout", "RequestException", "Exception"}
      [] class = "ReadTimeout" ->
            {"ReadTimeout", "Timeout", "RequestException", "Exception"}
      [] class = "SSLError" ->
            {"SSLError", "ConnectionError", "RequestException", "Exception"}
      [] class = "ConnectionError" ->
            {"ConnectionError", "RequestException", "Exception"}
      [] class = "TooManyRedirects" ->
            {"TooManyRedirects", "RequestException", "Exception"}
      [] class = "InvalidURL" ->
            {"InvalidURL", "RequestException", "ValueError", "Exception"}
      [] class = "ChunkedEncodingError" ->
            {"ChunkedEncodingError", "RequestException", "Exception"}
      [] class = "UnicodeError" ->
            {"UnicodeError", "ValueError", "Exception"}
      [] OTHER -> {class, "Exception"}

\* the error message of a failed fetch: its fixed text, the status code
\* and the str(e) or response.reason interpolated into it
ErrorMessage(text, status_code, detail) ==
    [text |-> text, status_code |-> status_code, detail |-> detail]

EXCEPT_CLAUSES_NoCatchAll ==
    <<[class |-> "Timeout", text |-> "Request timed out after 30 seconds", detail |-> FALSE],
      [class |-> "SSLError", text |-> "SSL certificate error: ", detail |-> TRUE],
      [class |-> "ConnectionError",
       text |-> "Connection error: Could not connect to the server", detail |-> FALSE],
      [class |-> "TooManyRedirects",
       text |-> "Too many redirects - the URL may be invalid", detail |-> FALSE],
      [class |-> "RequestException", text |-> "Request failed: ", detail |-> TRUE]>>

\* the except clauses of fetch_url, in source order; detail is TRUE when
\* the message ends with str(e)
EXCEPT_CLAUSES ==
    <<[class |-> "Timeout", text |-> "Request timed out after 30 seconds", detail |-> FALSE],
      [class |-> "SSLError", text |-> "SSL certificate error: ", detail |-> TRUE],
      [class |-> "ConnectionError",
       text |-> "Connection error: Could not connect to the server", detail |-> FALSE],
      [class |-> "TooManyRedirects",
       text |-> "Too many redirects - the URL may be invalid", detail |-> FALSE],
      [class |-> "RequestException", text |-> "Request failed: ", detail |-> TRUE],
      [class |-> "Exception", text |-> "Unexpected error: ", detail |-> TRUE]>>

\* the first except clause the exception is an instance of; 0 when no
\* clause catches it
Handler(e) ==
    LET catching == {k \in 1..Len(EXCEPT_CLAUSES) : EXCEPT_CLAUSES[k].class \in Mro(e.class)}
    IN  IF catching = {} THEN 0 ELSE Min(catching)

\* url.startswith(('http://', 'https://'))
HasHttpPrefix(u) ==
    \/ MatchAt(u, 1, <<"http", ":", "/", "/">>)
    \/ MatchAt(u, 1, <<"https", ":", "/", "/">>)

\* the URL handed to requests.get
Requested(u) == IF HasHttpPrefix(u) THEN u ELSE <<"https", ":", "/", "/">> \o u

\* response.url: the URL of the last response of the redirect chain
ResponseUrl(requested, response) ==
    IF response.redirect = None THEN requested ELSE response.redirect[1]

\* response.text after the encoding detection of fetch_url: the content
\* and the encoding it is decoded with
ResponseText(response) ==
    [content  |-> response.content,
     encoding |-> IF response.encoding \in {"None", "ISO-8859-1"}
                  THEN response.apparent_encoding
                  ELSE response.encoding]

FetchResult(success, page, status_code, error_message, final_url) ==
    [success |-> success, html |-> page, status_code |-> status_code,
     error_message |-> error_message, final_url |-> final_url]

NoFetchResult == FetchResult(FALSE, None, None, None, <<>>)

\* fetch_url(url) with the default timeout, given what requests.get does
fetch_url(u, net) ==
    LET requested == Requested(u)
        response  == net.response
        e         == net.exception
        k         == Handler(e)
    IN  IF ~net.raises
        THEN IF response.status_code = 200
             THEN [raises |-> FALSE,
                   value  |-> FetchResult(TRUE, Some(ResponseText(response)),
                                          Some(response.status_code), None,
                                          ResponseUrl(requested, response))]
             ELSE [raises |-> FALSE,
                   value  |-> FetchResult(FALSE, None, Some(response.status_code),
                                          Some(ErrorMessage("HTTP ", Some(response.status_code),
                                                            response.reason)),
                                          ResponseUrl(requested, response))]
        ELSE IF k = 0
             THEN [raises |-> TRUE, value |-> NoFetchResult]
             ELSE [raises |-> FALSE,
                   value  |-> FetchResult(FALSE, None, None,
                                          Some(ErrorMessage(EXCEPT_CLAUSES[k].text, None,
                                                            IF EXCEPT_CLAUSES[k].detail
                                                            THEN e.str ELSE "")),
                                          requested)]

\* the URLs given to fetch_url: with a scheme, without one, with another
\* scheme, with an upper-case scheme, and the empty string
FetchUrls ==
    {<<"https", ":", "/", "/", "jobs", ".", "lever", ".", "co", "/", "acme">>,
     <<"http", ":", "/", "/", "careers", ".", "acme", ".", "com">>,
     <<"careers", ".", "acme", ".", "com", "/", "jobs">>,
     <<"ftp", ":", "/", "/", "careers", ".", "acme", ".", "com">>,
     <<"HTTPS", ":", "/", "/", "careers", ".", "acme", ".", "com">>,
     <<"http", ":", "/", "careers", ".", "acme", ".", "com">>,
     <<>>}

StatusReasons ==
    {<<200, "OK">>, <<204, "No Content">>, <<403, "Forbidden">>,
     <<404, "Not Found">>, <<500, "Internal Server Error">>}

RedirectTargets == {None, Some(<<"https", ":", "/", "/", "boards", ".", "greenhouse", ".", "io", "/", "acme">>)}

NoResponse ==
    [status_code |-> 0, reason |-> "", redirect |-> None, encoding |-> "None",
     apparent_encoding |-> "None", content |-> <<>>]

NoException == [class |-> "", str |-> ""]

Responses ==
    {[raises |-> FALSE, exception |-> NoException,
      response |-> [status_code |-> sr[1], reason |-> sr[2], redirect |-> rd,
                    encoding |-> enc, apparent_encoding |-> "utf-8", content |-> c]] :
        sr \in StatusReasons, rd \in RedirectTargets,
        enc \in {"None", "ISO-8859-1", "utf-8"}, c \in {<<>>, <<"skills", "", "team">>}}

Exceptions ==
    {[raises |-> TRUE, response |-> NoResponse, exception |-> [class |-> c, str |-> "refused"]] :
        c \in {"ConnectTimeout", "ReadTimeout", "SSLError", "ConnectionError",
               "TooManyRedirects", "InvalidURL", "ChunkedEncodingError",
               "UnicodeError", "ValueError"}}

InitFetch ==
    /\ NoLogger
    /\ url \in FetchUrls
    /\ pc = "request"
    /\ platform = "none"
    /\ arg = "none"
    /\ resolved = NoResult
    /\ again = NoResult
    /\ html \in Responses \cup Exceptions
    /\ tiers = <<>>
    /\ result = [raises |-> FALSE, value |-> NoFetchResult]

\* fetch_url(url)
Fetch ==
    /\ pc = "request"
    /\ result' = fetch_url(url, html)
    /\ pc' = "fetched"
    /\ UNCHANGED <<url, platform, arg, resolved, again, html, tiers>>
    /\ UNCHANGED logvars

NextFetch == Fetch

SpecFetch == InitFetch /\ [][NextFetch]_vars

\* the input starts with http:// or https://, in either letter case
HasHttpScheme(u) == HasHttpPrefix(Lower(u))

\* C29: fetch_url never raises, and in every FetchResult success is true
\* iff the status is 200, iff html is not None, iff error_message is None;
\* a non-200 response gives its status and its URL; every exception gives
\* status_code None and final_url the URL that was requested, which is the
\* input with https:// prepended when the input had no http(s) scheme.
C29_FetchResultConsistent ==
    pc = "fetched" =>
        /\ ~result.raises
        /\ LET r == result.value
           IN  /\ r.success <=> (r.status_code = Some(200))
               /\ r.success <=> (r.html # None)
               /\ r.success <=> (r.error_message = None)
               /\ (~html.raises /\ html.response.status_code # 200) =>
                     /\ r.status_code = Some(html.response.status_code)
                     /\ r.final_url = (IF html.response.redirect = None
                                       THEN Requested(url)
                                       ELSE html.response.redirect[1])
               /\ html.raises =>
                     /\ r.status_code = None
                     /\ r.final_url = Requested(url)
                     /\ ~HasHttpScheme(url) =>
                           r.final_url = <<"https", ":", "/", "/">> \o url
                     /\ HasHttpPrefix(url) => r.final_url = url

\* an exception only the last except clause catches, on a URL given
\* without a scheme: the result is a failure on the https:// URL
C29_Witness ==
    /\ pc = "fetched"
    /\ html.raises
    /\ html.exception.class = "ValueError"
    /\ ~HasHttpScheme(url)
    /\ url # <<>>
    /\ ~result.raises
    /\ result.value.final_url = <<"https", ":", "/", "/">> \o url
    /\ result.value.error_message # None

====
